---------------------------- MODULE Spec2Model ----------------------------
(***************************************************************************)
(* A model of lcbuilder (src/lcbuilder): the object-info factory           *)
(* LcBuilder.build_object_info, the star-parameter completion              *)
(* LcBuilder.__complete_star_info and the light-curve pipeline             *)
(* LcBuilder.build.                                                        *)
(*                                                                         *)
(* Python values are tagged records (PyNone, PyStr, PyInt, ...), so that   *)
(* "x is None" is a test of the tag.  A Python string is the sequence of   *)
(* its characters, so that regular expressions, str(), replace() and       *)
(* os.path.splitext are computed and not assumed.                          *)
(***************************************************************************)
EXTENDS Integers, Sequences, FiniteSets, TLC

VARIABLES
    oi_call,        \* the arguments of the last build_object_info call
    oi_result,      \* what that call returned or raised
    star_input,     \* object_info.star_info handed to __complete_star_info
    star_catalogue, \* lc_build.star_info handed to __complete_star_info
    star_result,    \* the StarInfo __complete_star_info returned
    time_float,     \* build: the raw time array (ticks)
    cadence,        \* build: lc_build.cadence, or what its computation raised
    flux_float,     \* build: the raw flux array
    outliers_sigma, \* build: object_info.outliers_sigma
    lc,             \* build: the samples of `lc` after line 68 (raw indexes)
    handed,         \* build: the samples passed to __clean_initial_flux
    b_pc,           \* build: position in the pipeline
    b_opts,         \* build: the object_info options that steer the pipeline
    b_period,       \* build: lc_build.detrend_period
    b_log,          \* build: every stage run so far, in order
    b_window,       \* build: the window handed to __detrend_by_period
    clean,          \* build: clean_time, flatten_flux and clean_flux_err, or
                    \* the exception that ended the build
    object_info,    \* build: the object_info attributes the stages read
    clean_pc,       \* build: the stage that runs next on `clean`
    trail,          \* build: what each stage or mask entry was applied to
                    \* and what it gave
    snr_threshold,  \* __reduce_simple_oscillations: its argument
    remove_signal,  \* __reduce_simple_oscillations: the loop condition
    number,         \* __reduce_simple_oscillations: the fits subtracted
    flux_std,       \* __reduce_simple_oscillations: numpy.std(flux)
    osc_pc,         \* __reduce_simple_oscillations: in the loop or returned
    rso_call,       \* build: what line 87 hands to __reduce_simple_oscillations
    rso,            \* __reduce_simple_oscillations: its parameters and locals
    rso_log,        \* the searches, periodograms, last fit and files written
    rso_pc,         \* the loop __reduce_simple_oscillations is in
    art_opts,       \* build: what decides which files a build writes
    art_pc,         \* build: the next write, by its place in the code
    art_log,        \* build: the writes made so far and how each ended
    art_result      \* build: running, returned lc_build, or raised

vars == <<oi_call, oi_result, star_input, star_catalogue, star_result,
          time_float, cadence, flux_float, outliers_sigma, lc, handed,
          b_pc, b_opts, b_period, b_log, b_window,
          clean, object_info, clean_pc, trail,
          snr_threshold, remove_signal, number, flux_std, osc_pc,
          rso_call, rso, rso_log, rso_pc,
          art_opts, art_pc, art_log, art_result>>

infoVars == <<oi_call, oi_result>>
starVars == <<star_input, star_catalogue, star_result>>
cadenceVars == <<time_float, cadence>>
outlierVars == <<flux_float, outliers_sigma, lc, handed>>
orderVars == <<b_pc, b_opts, b_period, b_log, b_window>>
arrayVars == <<clean, object_info, clean_pc, trail>>
oscVars == <<snr_threshold, remove_signal, number, flux_std, osc_pc,
             rso_call, rso, rso_log, rso_pc,
             art_opts, art_pc, art_log, art_result>>

-----------------------------------------------------------------------------
(* Python values *)

PyNone == [t |-> "None"]
PyStr(s) == [t |-> "str", v |-> s]
PyInt(n) == [t |-> "int", v |-> n]
PyFloat(lit) == [t |-> "float", v |-> lit]
PyBool(b) == [t |-> "bool", v |-> b]
PyList(s) == [t |-> "list", v |-> s]

IsNone(x) == x.t = "None"

DigitChars == <<"0", "1", "2", "3", "4", "5", "6", "7", "8", "9">>
Digits == {DigitChars[i] : i \in 1..10}

RECURSIVE IntToStr(_)
IntToStr(n) ==
    IF n < 10 THEN <<DigitChars[n + 1]>>
    ELSE IntToStr(n \div 10) \o <<DigitChars[(n % 10) + 1]>>

RECURSIVE JoinInts(_)
JoinInts(s) ==
    IF Len(s) = 0 THEN <<>>
    ELSE IF Len(s) = 1 THEN IntToStr(s[1])
    ELSE IntToStr(s[1]) \o <<",", " ">> \o JoinInts(Tail(s))

\* Python's str(): a str is itself, None is "None", a list of ints is "[1, 2]".
Str(x) ==
    CASE x.t = "str" -> x.v
      [] x.t = "None" -> <<"N", "o", "n", "e">>
      [] x.t = "int" -> IntToStr(x.v)
      [] x.t = "list" -> <<"[">> \o JoinInts(x.v) \o <<"]">>

\* str.replace(old, new) for a one-character old and new.
Replace(s, old, new) == [i \in 1..Len(s) |-> IF s[i] = old THEN new ELSE s[i]]

\* str.rfind(c) + 1: the last position of c in s, 0 when it is absent.
RFind(s, c) ==
    LET hits == {i \in 1..Len(s) : s[i] = c}
    IN  IF hits = {} THEN 0 ELSE CHOOSE i \in hits : \A j \in hits : j <= i

\* os.path.splitext(p)[0] (genericpath._splitext with sep "/", extsep "."):
\* the extension starts at the last dot after the last separator, unless the
\* file name holds only dots before it.
SplitextRoot(p) ==
    LET sepIndex == RFind(p, "/")
        dotIndex == RFind(p, ".")
    IN  IF dotIndex > sepIndex
           /\ \E k \in (sepIndex + 1)..(dotIndex - 1) : p[k] # "."
        THEN SubSeq(p, 1, dotIndex - 1)
        ELSE p

-----------------------------------------------------------------------------
(* Exceptions and objects *)

Raise(exc) == [kind |-> "raise", exc |-> exc, cls |-> "", attrs |-> <<>>]
Object(cls, attrs) == [kind |-> "return", exc |-> "", cls |-> cls, attrs |-> attrs]
NoCall == [kind |-> "none", exc |-> "", cls |-> "", attrs |-> <<>>]

\* A formal parameter: its name, and its default when it has one.
Req(n) == [n |-> n, opt |-> FALSE, d |-> PyNone]
Opt(n, d) == [n |-> n, opt |-> TRUE, d |-> d]

\* Python's binding of positional arguments to the parameters after self:
\* a TypeError when there are more arguments than parameters or when a
\* parameter without default gets none; otherwise name -> value.
BindOk(params, args) ==
    /\ Len(args) <= Len(params)
    /\ \A i \in 1..Len(params) : i > Len(args) => params[i].opt

Bind(params, args) ==
    [n \in {params[i].n : i \in 1..Len(params)} |->
        LET i == CHOOSE j \in 1..Len(params) : params[j].n = n
        IN  IF i <= Len(args) THEN args[i] ELSE params[i].d]

-----------------------------------------------------------------------------
(* The object-info classes (src/lcbuilder/objectinfo) *)

Chars_cosine == <<"c", "o", "s", "i", "n", "e">>
Chars_pca_flux == <<"p", "c", "a", "_", "f", "l", "u", "x">>

\* outliers_sigma=3 ... prepare_algorithm=None: the same ten parameters, in
\* the same order, in every constructor of the package.
CleaningParams ==
    << Opt("outliers_sigma", PyInt(3)), Opt("high_rms_enabled", PyBool(TRUE)),
       Opt("high_rms_threshold", PyFloat("2.5")), Opt("high_rms_bin_hours", PyInt(4)),
       Opt("smooth_enabled", PyBool(FALSE)), Opt("auto_detrend_enabled", PyBool(FALSE)),
       Opt("auto_detrend_method", PyStr(Chars_cosine)),
       Opt("auto_detrend_ratio", PyFloat("0.25")),
       Opt("auto_detrend_period", PyNone), Opt("prepare_algorithm", PyNone) >>

\* reduce_simple_oscillations=False ... binning=1.
OscillationParams(max_period) ==
    << Opt("reduce_simple_oscillations", PyBool(FALSE)),
       Opt("oscillation_snr_threshold", PyInt(4)),
       Opt("oscillation_amplitude_threshold", PyFloat("0.1")),
       Opt("oscillation_ws_scale", PyInt(60)),
       Opt("oscillation_min_period", PyFloat("0.002")),
       Opt("oscillation_max_period", PyFloat(max_period)),
       Opt("binning", PyInt(1)) >>

Names(params) == [i \in 1..Len(params) |-> params[i].n]
Vals(a, names) == [i \in 1..Len(names) |-> a[names[i]]]

ObjectInfoParams ==
    << Opt("initial_mask", PyNone), Opt("initial_transit_mask", PyNone),
       Opt("star_info", PyNone), Opt("apertures", PyNone) >> \o CleaningParams

InputObjectInfoParams ==
    << Req("input_file"), Opt("initial_mask", PyNone),
       Opt("initial_transit_mask", PyNone), Opt("star_info", PyNone) >>
    \o CleaningParams

MissionInputObjectInfoParams ==
    << Req("mission_id"), Req("input_file"), Opt("initial_mask", PyNone),
       Opt("initial_transit_mask", PyNone), Opt("star_info", PyNone) >>
    \o CleaningParams

MissionObjectInfoParams ==
    << Req("sectors"), Opt("mission_id", PyNone), Opt("ra", PyNone),
       Opt("dec", PyNone), Opt("author", PyNone), Opt("cadence", PyNone),
       Opt("initial_mask", PyNone), Opt("initial_transit_mask", PyNone),
       Opt("star_info", PyNone), Opt("apertures", PyNone) >>
    \o CleaningParams \o OscillationParams("0.001")
    \o << Opt("eleanor_corr_flux", PyStr(Chars_pca_flux)),
          Opt("truncate_border", PyInt(0)) >>

\* ObjectInfo.__init__(self, *args): every parameter becomes an attribute.
\* Returns the attributes, or a raise.
ObjectInfo_init(args) ==
    IF BindOk(ObjectInfoParams, args)
    THEN Object("ObjectInfo", Bind(ObjectInfoParams, args))
    ELSE Raise("TypeError")

\* A subclass constructor after binding its own parameters: call
\* super().__init__ with superArgs, then set the own attributes.
Construct(cls, superArgs, own) ==
    LET base == ObjectInfo_init(superArgs)
    IN  IF base.kind = "raise" THEN base
        ELSE Object(cls, own @@ base.attrs)

InputObjectInfo_init(args) ==
    IF ~BindOk(InputObjectInfoParams, args) THEN Raise("TypeError")
    ELSE LET a == Bind(InputObjectInfoParams, args)
         IN  Construct("InputObjectInfo",
                 <<a["initial_mask"], a["initial_transit_mask"], a["star_info"],
                   PyNone>> \o Vals(a, Names(CleaningParams)),
                 [n \in {"input_file"} |-> a[n]])

MissionInputObjectInfo_init(args) ==
    IF ~BindOk(MissionInputObjectInfoParams, args) THEN Raise("TypeError")
    ELSE LET a == Bind(MissionInputObjectInfoParams, args)
         IN  Construct("MissionInputObjectInfo",
                 <<a["initial_mask"], a["initial_transit_mask"], a["star_info"],
                   PyNone>> \o Vals(a, Names(CleaningParams)),
                 [n \in {"id", "input_file"} |->
                     IF n = "id" THEN a["mission_id"] ELSE a[n]])

MissionObjectInfo_init(args) ==
    IF ~BindOk(MissionObjectInfoParams, args) THEN Raise("TypeError")
    ELSE LET a == Bind(MissionObjectInfoParams, args)
         IN  Construct("MissionObjectInfo",
                 <<a["initial_mask"], a["initial_transit_mask"], a["star_info"],
                   a["apertures"]>>
                 \o Vals(a, Names(CleaningParams))
                 \o Vals(a, Names(OscillationParams("0.001")))
                 \o <<a["truncate_border"]>>,
                 [n \in {"id", "ra", "dec", "sectors", "cadence", "author",
                         "eleanor_corr_flux"} |->
                     IF n = "id" THEN a["mission_id"] ELSE a[n]])

\* MissionFfiIdObjectInfo and MissionFfiCoordsObjectInfo are imported by
\* lcbuilder_class.py (lines 20-21) from modules that are not part of src/:
\* they are modelled from the specification and the test: the constructor
\* keeps its first arguments and accepts every argument build_object_info
\* passes.
MissionFfiCoordsObjectInfo_init(args) ==
    Object("MissionFfiCoordsObjectInfo",
           [n \in {"ra", "dec", "sectors", "author", "cadence"} |->
               CASE n = "ra" -> args[1] [] n = "dec" -> args[2]
                 [] n = "sectors" -> args[3] [] n = "author" -> args[4]
                 [] n = "cadence" -> args[5]])

MissionFfiIdObjectInfo_init(args) ==
    Object("MissionFfiIdObjectInfo",
           [n \in {"id", "sectors", "author", "cadence"} |->
               CASE n = "id" -> args[1] [] n = "sectors" -> args[2]
                 [] n = "author" -> args[3] [] n = "cadence" -> args[4]])

Chars_INP == <<"I", "N", "P", "_">>
Chars_FFI == <<"_", "F", "F", "I", "_">>

\* str.replace(c, ""): every c dropped.
Remove(s, c) == SelectSeq(s, LAMBDA x : x # c)

InputObjectInfo_sherlock_id(self) ==
    PyStr(Chars_INP \o Replace(SplitextRoot(self["input_file"].v), "/", "_"))

InputObjectInfo_mission_id(self) == PyNone

MissionInputObjectInfo_sherlock_id(self) ==
    PyStr(Remove(self["id"].v, " ") \o <<"_", "I", "N", "P">>)

MissionInputObjectInfo_mission_id(self) == self["id"]

MissionObjectInfo_sherlock_id(self) ==
    IF ~IsNone(self["ra"]) /\ ~IsNone(self["dec"])
    THEN PyStr(Str(self["ra"]) \o <<"_">> \o Str(self["dec"]) \o Chars_FFI
               \o Str(self["sectors"]))
    ELSE PyStr(Remove(self["id"].v, " ") \o <<"_">> \o Str(self["sectors"]))

MissionObjectInfo_mission_id(self) ==
    IF ~IsNone(self["ra"]) /\ ~IsNone(self["dec"]) THEN PyNone ELSE self["id"]

MissionFfiCoordsObjectInfo_sherlock_id(self) ==
    PyStr(Str(self["ra"]) \o <<"_">> \o Str(self["dec"]) \o Chars_FFI
          \o Str(self["sectors"]))

MissionFfiCoordsObjectInfo_mission_id(self) == PyNone

MissionFfiIdObjectInfo_sherlock_id(self) ==
    PyStr(Remove(self["id"].v, " ") \o Chars_FFI \o Str(self["sectors"]))

MissionFfiIdObjectInfo_mission_id(self) == self["id"]

\* object_info.sherlock_id() and object_info.mission_id(): the method of the
\* object's class.
sherlock_id(obj) ==
    CASE obj.cls = "InputObjectInfo" -> InputObjectInfo_sherlock_id(obj.attrs)
      [] obj.cls = "MissionInputObjectInfo" -> MissionInputObjectInfo_sherlock_id(obj.attrs)
      [] obj.cls = "MissionObjectInfo" -> MissionObjectInfo_sherlock_id(obj.attrs)
      [] obj.cls = "MissionFfiCoordsObjectInfo" -> MissionFfiCoordsObjectInfo_sherlock_id(obj.attrs)
      [] obj.cls = "MissionFfiIdObjectInfo" -> MissionFfiIdObjectInfo_sherlock_id(obj.attrs)

mission_id(obj) ==
    CASE obj.cls = "InputObjectInfo" -> InputObjectInfo_mission_id(obj.attrs)
      [] obj.cls = "MissionInputObjectInfo" -> MissionInputObjectInfo_mission_id(obj.attrs)
      [] obj.cls = "MissionObjectInfo" -> MissionObjectInfo_mission_id(obj.attrs)
      [] obj.cls = "MissionFfiCoordsObjectInfo" -> MissionFfiCoordsObjectInfo_mission_id(obj.attrs)
      [] obj.cls = "MissionFfiIdObjectInfo" -> MissionFfiIdObjectInfo_mission_id(obj.attrs)

-----------------------------------------------------------------------------
(* LcBuilder.build_object_info (src/lcbuilder/lcbuilder_class.py) *)

ShortCadenceLimit == 300

\* -{0,1}[0-9.]+
IsCoordNumber(s) ==
    LET body == IF Len(s) > 0 /\ s[1] = "-" THEN Tail(s) ELSE s
    IN  /\ Len(body) >= 1
        /\ \A i \in 1..Len(body) : body[i] \in Digits \cup {"."}

\* parse_coords with the two groups taken in the wrong order.
parse_coords_swapped(target) ==
    LET cuts == {k \in 1..Len(target) :
                    /\ target[k] = "_"
                    /\ IsCoordNumber(SubSeq(target, 1, k - 1))
                    /\ IsCoordNumber(SubSeq(target, k + 1, Len(target)))}
    IN  IF cuts = {} THEN PyNone
        ELSE LET k == CHOOSE c \in cuts : TRUE
             IN  [t |-> "coords",
                  v |-> <<PyStr(SubSeq(target, k + 1, Len(target))),
                          PyStr(SubSeq(target, 1, k - 1))>>]

\* COORDS_REGEX "^(-{0,1}[0-9.]+)_(-{0,1}[0-9.]+)$": the two groups, as the
\* strings they are, or None.  "_" is in neither group, so the split is at
\* the only "_" of the target.
parse_coords(target) ==
    LET cuts == {k \in 1..Len(target) :
                    /\ target[k] = "_"
                    /\ IsCoordNumber(SubSeq(target, 1, k - 1))
                    /\ IsCoordNumber(SubSeq(target, k + 1, Len(target)))}
    IN  IF cuts = {} THEN PyNone
        ELSE LET k == CHOOSE c \in cuts : TRUE
             IN  [t |-> "coords",
                  v |-> <<PyStr(SubSeq(target, 1, k - 1)),
                          PyStr(SubSeq(target, k + 1, Len(target)))>>]

MissionPrefixes ==
    { <<"K", "I", "C">>, <<"T", "I", "C">>, <<"E", "P", "I", "C">> }

MissionOfPrefix(p) ==
    CASE p = <<"K", "I", "C">> -> "Kepler"
      [] p = <<"T", "I", "C">> -> "TESS"
      [] p = <<"E", "P", "I", "C">> -> "K2"

\* MissionLightcurveBuilder.parse_object_id is not part of src/: it is
\* modelled from OBJECT_ID_REGEX "^(KIC|TIC|EPIC)[-_ ]([0-9]+)$"
\* (ObjectInfo.py line 8) as <<mission, mission_prefix, id>>, all None when
\* the target does not match.
parse_object_id(target) ==
    LET fits == {p \in MissionPrefixes :
                    /\ Len(target) >= Len(p) + 2
                    /\ SubSeq(target, 1, Len(p)) = p
                    /\ target[Len(p) + 1] \in {"-", "_", " "}
                    /\ \A i \in (Len(p) + 2)..Len(target) : target[i] \in Digits}
    IN  IF fits = {} THEN <<PyNone, PyNone, PyNone>>
        ELSE LET p == CHOOSE q \in fits : TRUE
             IN  << [t |-> "mission", v |-> MissionOfPrefix(p)], PyStr(p),
                    PyStr(SubSeq(target, Len(p) + 2, Len(target))) >>

\* DEFAULT_CADENCES_FOR_MISSION
DEFAULT_CADENCES_FOR_MISSION(mission) ==
    CASE mission = "Kepler" -> 60
      [] mission = "K2" -> 60
      [] mission = "TESS" -> 120

BuildObjectInfoParams ==
    << Req("target_name"), Req("author"), Req("sectors"), Req("file"),
       Req("cadence"), Req("initial_mask"), Req("initial_transit_mask"),
       Req("star_info"), Req("aperture"),
       Opt("eleanor_corr_flux", PyStr(Chars_pca_flux)),
       Opt("outliers_sigma", PyNone) >>
    \o Tail(CleaningParams) \o OscillationParams("0.2")

\* The arguments every branch passes last: outliers_sigma ... binning.
TailNames == Names(CleaningParams) \o Names(OscillationParams("0.2"))

build_object_info(args) ==
    IF ~BindOk(BuildObjectInfoParams, args) THEN Raise("TypeError")
    ELSE
    LET a == Bind(BuildObjectInfoParams, args)
        mission == parse_object_id(a["target_name"].v)[1]
        coords == IF ~IsNone(mission) THEN PyNone
                  ELSE parse_coords(a["target_name"].v)
        file == a["file"]
    IN  IF IsNone(a["cadence"]) /\ IsNone(mission)
        THEN Raise("KeyError")     \* DEFAULT_CADENCES_FOR_MISSION[None]
        ELSE
        LET cad ==
                IF ~IsNone(a["cadence"]) THEN a["cadence"]
                ELSE PyInt(DEFAULT_CADENCES_FOR_MISSION(mission.v))
            masks == <<a["initial_mask"], a["initial_transit_mask"], a["star_info"]>>
        IN  IF ~IsNone(mission) /\ IsNone(file) /\ cad.v <= ShortCadenceLimit
            THEN MissionObjectInfo_init(
                     <<a["target_name"], a["sectors"], a["author"], cad>> \o masks
                     \o <<a["aperture"]>> \o Vals(a, TailNames))
            ELSE IF ~IsNone(mission) /\ IsNone(file) /\ cad.v > ShortCadenceLimit
            THEN MissionFfiIdObjectInfo_init(
                     <<a["target_name"], a["sectors"], a["author"], cad>> \o masks
                     \o <<a["aperture"], a["eleanor_corr_flux"]>> \o Vals(a, TailNames))
            ELSE IF ~IsNone(mission) /\ ~IsNone(file)
            THEN MissionInputObjectInfo_init(
                     <<a["target_name"], file>> \o masks \o Vals(a, TailNames))
            ELSE IF IsNone(mission) /\ ~IsNone(coords) /\ cad.v > ShortCadenceLimit
            THEN MissionFfiCoordsObjectInfo_init(
                     <<coords.v[1], coords.v[2], a["sectors"], a["author"], cad>>
                     \o masks \o <<a["aperture"], a["eleanor_corr_flux"]>>
                     \o Vals(a, TailNames))
            ELSE IF IsNone(mission) /\ ~IsNone(file)
            THEN InputObjectInfo_init(<<file>> \o masks \o Vals(a, TailNames))
            ELSE Raise("ValueError")

(* The calls the model makes *)

Chars_TIC_1234 == <<"T", "I", "C", " ", "1", "2", "3", "4">>
Chars_KIC_1234 == <<"K", "I", "C", " ", "1", "2", "3", "4">>
Chars_EPIC_1234 == <<"E", "P", "I", "C", " ", "1", "2", "3", "4">>
Chars_TIC_dash == <<"T", "I", "C", "-", "7">>
Chars_TIC1234 == <<"T", "I", "C", "1", "2", "3", "4">>
Chars_coords == <<"2", "5", ".", "9", "_", "-", "1", "9", ".", "3">>
Chars_coords_short == <<"1", "_", "2">>
Chars_half_coords == <<"2", "5", ".", "9", "_">>
Chars_WHATEVER == <<"W", "H", "A", "T", "E", "V", "E", "R">>
Chars_fake_lc_csv == <<"f", "a", "k", "e", "_", "l", "c", ".", "c", "s", "v">>
Chars_dir_file == <<"d", ".", "1", "/", "m", "y", ".", "l", "c", ".", "c", "s", "v">>
Chars_dotted_dir == <<"a", ".", "b", "/", "l", "c">>
Chars_all == <<"a", "l", "l">>
Chars_SPOC == <<"S", "P", "O", "C">>

TargetNames ==
    { Chars_TIC_1234, Chars_KIC_1234, Chars_EPIC_1234, Chars_TIC_dash,
      Chars_TIC1234, Chars_coords, Chars_coords_short, Chars_half_coords,
      Chars_WHATEVER }

\* The targets that are mission identifiers, and those that are coordinates.
MissionTargets == {Chars_TIC_1234, Chars_KIC_1234, Chars_EPIC_1234, Chars_TIC_dash}
CoordsTargets == {Chars_coords, Chars_coords_short}

Files == {PyNone, PyStr(Chars_fake_lc_csv), PyStr(Chars_dir_file), PyStr(Chars_dotted_dir)}
Authors == {PyNone, PyStr(Chars_SPOC)}
SectorChoices == {PyStr(Chars_all), PyList(<<1>>), PyList(<<1, 13>>)}
Cadences ==
    {PyNone} \cup {PyInt(c) : c \in {60, 120, ShortCadenceLimit,
                                      ShortCadenceLimit + 1, 1800}}

IdleInfo == oi_call = <<>> /\ oi_result = NoCall
IdleStar == star_input = PyNone /\ star_catalogue = PyNone /\ star_result = PyNone
IdleCadence == time_float = <<>> /\ cadence = PyNone
IdleOutliers ==
    /\ flux_float = <<>> /\ outliers_sigma = PyNone
    /\ lc = PyNone /\ handed = PyNone
IdleOrder ==
    /\ b_pc = "idle" /\ b_opts = <<>> /\ b_period = PyNone /\ b_log = <<>>
    /\ b_window = PyNone
IdleArrays ==
    clean = PyNone /\ object_info = PyNone /\ clean_pc = "idle" /\ trail = <<>>
IdleReduce ==
    rso_call = PyNone /\ rso = PyNone /\ rso_log = PyNone /\ rso_pc = "idle"
IdleArtifacts ==
    art_opts = PyNone /\ art_pc = 0 /\ art_log = <<>> /\ art_result = "idle"
IdleOsc ==
    /\ snr_threshold = PyNone /\ remove_signal = FALSE /\ number = 0
    /\ flux_std = PyNone /\ osc_pc = "idle"
    /\ IdleReduce /\ IdleArtifacts

\* lcbuilder.build_object_info(target_name, None, sectors, file, cadence,
\*                             None, None, None, None, None)
\* build_object_info keeps no state: a behaviour is one call.
CallBuildObjectInfo ==
    /\ oi_result.kind = "none"
    /\ \E target \in TargetNames, author \in Authors, sectors \in SectorChoices,
          file \in Files, cad \in Cadences :
          LET args == <<PyStr(target), author, sectors, file, cad,
                        PyNone, PyNone, PyNone, PyNone, PyNone>>
          IN  /\ oi_call' = args
              /\ oi_result' = build_object_info(args)
    /\ UNCHANGED <<starVars, cadenceVars, outlierVars, orderVars, arrayVars, oscVars>>

InitInfo ==
    /\ IdleInfo /\ IdleStar /\ IdleCadence /\ IdleOutliers /\ IdleOrder
    /\ IdleArrays /\ IdleOsc
NextInfo == CallBuildObjectInfo
SpecInfo == InitInfo /\ [][NextInfo]_vars

Called == oi_result.kind # "none"
Arg_target == oi_call[1].v
Arg_sectors == oi_call[3]
Arg_file == oi_call[4]
Arg_cadence == oi_call[5]
IsMissionTarget == Arg_target \in MissionTargets
IsCoordsTarget == Arg_target \in CoordsTargets

\* Two Python values are the same value (None is None, NaN is the NaN).
PyEq(x, y) == x.t = y.t /\ (x.t \in {"None", "nan"} \/ x.v = y.v)

Returned(cls) == oi_result.kind = "return" /\ oi_result.cls = cls
CadenceGiven == ~IsNone(Arg_cadence)

\* C1: a mission identifier target, no file and a cadence of at most 300 s
\* give the short-cadence mission variant, whose mission_id() is the target
\* name that was passed in.
C1_MissionShortCadence ==
    (/\ Called /\ IsMissionTarget /\ IsNone(Arg_file)
     /\ CadenceGiven /\ Arg_cadence.v <= 300)
    => /\ Returned("MissionObjectInfo")
       /\ PyEq(mission_id(oi_result), PyStr(Arg_target))

MatchesNoVariant ==
    /\ ~IsMissionTarget /\ IsNone(Arg_file)
    /\ ~(IsCoordsTarget /\ CadenceGiven /\ Arg_cadence.v > 300)

\* C3: every combination of target, file and cadence (given or omitted) that
\* matches none of the five variants raises ValueError and returns no object.
C3_InvalidTargetRaisesValueError ==
    (Called /\ MatchesNoVariant)
    => (oi_result.kind = "raise" /\ oi_result.exc = "ValueError")

\* C4: a target that is no mission identifier, together with a file, gives
\* the plain file variant: mission_id() is None and sherlock_id() is "INP_"
\* followed by the file path without extension, every "/" replaced by "_".
\* Stated for the inputs no other variant competes for: the cadence is given
\* and the target is not a coordinates target with a cadence above 300 s.
C4_PlainFileVariant ==
    (/\ Called /\ ~IsMissionTarget /\ ~IsNone(Arg_file) /\ CadenceGiven
     /\ ~(IsCoordsTarget /\ Arg_cadence.v > 300))
    => /\ Returned("InputObjectInfo")
       /\ IsNone(mission_id(oi_result))
       /\ PyEq(sherlock_id(oi_result),
               PyStr(<<"I", "N", "P", "_">>
                     \o Replace(SplitextRoot(Arg_file.v), "/", "_")))

-----------------------------------------------------------------------------
(* LcBuilder.__complete_star_info (lcbuilder_class.py lines 327-421) *)

\* Star parameters are numbers in thousandths of a unit (0.5 is Num(500)),
\* None, or NaN.  The model draws even numbers only, so that value / 2 is
\* exact, as it is in binary floating point.
Num(n) == [t |-> "num", v |-> n]
NaN == [t |-> "nan"]
IsNaN(x) == x.t = "nan"

HalfUnit == 500
AssumedValue == 100

BoundedFields == {"radius", "radius_min", "radius_max", "mass", "mass_min", "mass_max"}
PlainFields == {"ra", "dec", "teff", "lum", "logg", "ld_coefficients"}
StarFields == BoundedFields \cup PlainFields
FlagFields == {"mass_assumed", "radius_assumed"}

\* StarInfo (lcbuilder.star.starinfo) is not part of src/: it is modelled
\* from the specification.  StarInfo() has no value and nothing assumed;
\* assume_model_mass and assume_model_radius set the fallback value 0.1 and
\* the assumed flag.
\* A StarInfo object is [t |-> "StarInfo", v |-> its attributes].
StarObject(attrs) == [t |-> "StarInfo", v |-> attrs]

StarInfo == [f \in StarFields \cup FlagFields |->
                IF f \in FlagFields THEN PyBool(FALSE) ELSE PyNone]

assume_model_mass(star) ==
    [star EXCEPT !["mass"] = Num(AssumedValue), !["mass_assumed"] = PyBool(TRUE)]

assume_model_radius(star) ==
    [star EXCEPT !["radius"] = Num(AssumedValue), !["radius_assumed"] = PyBool(TRUE)]

\* MergeStarInfo with the catalogue value kept whenever the catalogue has one.
MergeStarInfo_catalogue_wins(input_star_info, catalogue_star_info) ==
    LET catalogue == IF IsNone(catalogue_star_info) THEN StarInfo
                     ELSE catalogue_star_info.v
        input == IF IsNone(input_star_info) THEN StarInfo ELSE input_star_info.v
    IN  [f \in StarFields \cup FlagFields |->
            IF f \in FlagFields THEN catalogue[f]
            ELSE IF ~IsNone(catalogue[f]) THEN catalogue[f] ELSE input[f]]

\* Lines 328-358: the result is the catalogue's StarInfo with every field the
\* user provided (is not None) overwritten; a user radius or mass clears the
\* flag.
MergeStarInfo(input_star_info, catalogue_star_info) ==
    LET catalogue == IF IsNone(catalogue_star_info) THEN StarInfo
                     ELSE catalogue_star_info.v
        input == IF IsNone(input_star_info) THEN StarInfo ELSE input_star_info.v
    IN  [f \in StarFields \cup FlagFields |->
            CASE f = "radius_assumed" ->
                    IF ~IsNone(input["radius"]) THEN PyBool(FALSE) ELSE catalogue[f]
              [] f = "mass_assumed" ->
                    IF ~IsNone(input["mass"]) THEN PyBool(FALSE) ELSE catalogue[f]
              [] OTHER ->
                    IF ~IsNone(input[f]) THEN input[f] ELSE catalogue[f]]

\* "x is None or numpy.isnan(x)"
Missing(x) == IsNone(x) \/ IsNaN(x)

\* LowerBound with >= for >.
LowerBound_inclusive(value) ==
    value - (IF value >= HalfUnit THEN HalfUnit ELSE value \div 2)

\* value - (0.5 if value > 0.5 else value / 2)
LowerBound(value) ==
    value - (IF value > HalfUnit THEN HalfUnit ELSE value \div 2)

UpperBound(value) == value + HalfUnit

\* Lines 359-384, in the order of the code.
FillDefaults(star) ==
    LET s1 == IF Missing(star["mass"]) THEN assume_model_mass(star) ELSE star
        s2 == IF Missing(s1["radius"]) THEN assume_model_radius(s1) ELSE s1
        s3 == IF Missing(s2["mass_min"])
              THEN [s2 EXCEPT !["mass_min"] = Num(LowerBound(s2["mass"].v))] ELSE s2
        s4 == IF Missing(s3["mass_max"])
              THEN [s3 EXCEPT !["mass_max"] = Num(UpperBound(s3["mass"].v))] ELSE s3
        s5 == IF Missing(s4["radius_min"])
              THEN [s4 EXCEPT !["radius_min"] = Num(LowerBound(s4["radius"].v))] ELSE s4
        s6 == IF Missing(s5["radius_max"])
              THEN [s5 EXCEPT !["radius_max"] = Num(UpperBound(s5["radius"].v))] ELSE s5
    IN  s6

complete_star_info(input_star_info, catalogue_star_info) ==
    StarObject(FillDefaults(MergeStarInfo(input_star_info, catalogue_star_info)))

(* The star parameters the model draws *)

\* A StarInfo from a <<value, min, max>> for the mass, one for the radius,
\* the value of every other field, and the two flags.
\* The value a star carries in a plain field: none, every field, or ra, teff
\* and logg only; the values differ from field to field and between the user
\* (base 10) and the catalogue (base 20).
PlainIndex(f) ==
    CASE f = "ra" -> 1 [] f = "dec" -> 2 [] f = "teff" -> 3
      [] f = "lum" -> 4 [] f = "logg" -> 5 [] f = "ld_coefficients" -> 6

PlainValue(f, plain) ==
    IF plain.pattern = "all" \/ (plain.pattern = "some" /\ f \in {"ra", "teff", "logg"})
    THEN Num(plain.base + PlainIndex(f))
    ELSE PyNone

PlainChoices(base) ==
    {[pattern |-> q, base |-> base] : q \in {"none", "all", "some"}}

MakeStar(mass, radius, plain, assumed) ==
    StarObject(
    [f \in StarFields \cup FlagFields |->
        CASE f = "mass" -> mass[1] [] f = "mass_min" -> mass[2]
          [] f = "mass_max" -> mass[3]
          [] f = "radius" -> radius[1] [] f = "radius_min" -> radius[2]
          [] f = "radius_max" -> radius[3]
          [] f \in FlagFields -> PyBool(assumed)
          [] OTHER -> PlainValue(f, plain)])

UserTriples ==
    {<<v, lo, hi>> : v \in {PyNone, NaN, Num(600)}, lo \in {PyNone, Num(200)},
                     hi \in {PyNone, Num(900)}}

CatalogueTriples ==
    {<<v, lo, hi>> : v \in {PyNone, NaN, Num(500)}, lo \in {NaN, Num(100)},
                     hi \in {NaN, Num(800)}}

UserStars ==
    {PyNone} \cup
    {MakeStar(m, r, p, FALSE) : m \in UserTriples, r \in UserTriples,
                                p \in PlainChoices(10)}

CatalogueStars ==
    {PyNone} \cup
    {MakeStar(m, r, p, a) : m \in CatalogueTriples, r \in CatalogueTriples,
                            p \in PlainChoices(20), a \in BOOLEAN}

\* star_info = self.__complete_star_info(object_info.mission_id(),
\*     object_info.star_info, lc_build.star_info, object_dir)   (build, line 54)
CompleteStarInfo ==
    /\ IsNone(star_result)
    /\ \E input \in UserStars, catalogue \in CatalogueStars :
          /\ star_input' = input
          /\ star_catalogue' = catalogue
          /\ star_result' = complete_star_info(input, catalogue)
    /\ UNCHANGED <<infoVars, cadenceVars, outlierVars, orderVars, arrayVars, oscVars>>

InitStar ==
    /\ IdleInfo /\ IdleStar /\ IdleCadence /\ IdleOutliers /\ IdleOrder
    /\ IdleArrays /\ IdleOsc
NextStar == CompleteStarInfo
SpecStar == InitStar /\ [][NextStar]_vars

StarDone == ~IsNone(star_result)

\* The user's and the catalogue's value of a field (None when there is no
\* StarInfo at all).
UserValue(f) == IF IsNone(star_input) THEN PyNone ELSE star_input.v[f]
CatalogueValue(f) == IF IsNone(star_catalogue) THEN PyNone ELSE star_catalogue.v[f]
Supplied(x) == ~IsNone(x) /\ ~IsNaN(x)

\* C5 as stated: for every field the result holds the user-provided value
\* whenever the user provided one, and the catalogue value otherwise; a
\* user-provided mass or radius clears the assumed flag.  Read in the
\* claim's favour: where the user gave NaN and the catalogue supplies a
\* value, either of the two counts, and the flag is asked to be cleared only
\* for a user value that is a number.
C5_UserOverridesCatalogue ==
    StarDone =>
        /\ \A f \in StarFields :
              /\ Supplied(UserValue(f)) => PyEq(star_result.v[f], UserValue(f))
              /\ (~Supplied(UserValue(f)) /\ Supplied(CatalogueValue(f)))
                    => \/ PyEq(star_result.v[f], CatalogueValue(f))
                       \/ /\ IsNaN(UserValue(f))
                          /\ PyEq(star_result.v[f], UserValue(f))
        /\ Supplied(UserValue("mass")) => ~star_result.v["mass_assumed"].v
        /\ Supplied(UserValue("radius")) => ~star_result.v["radius_assumed"].v

\* C5 amended: the value after the merge is the user's when the user gave one
\* (anything but None) and the catalogue's otherwise; the result holds it,
\* except that a mass, radius or bound that is None or NaN after the merge
\* (a NaN given by the user included) is replaced by the fallback; a user
\* mass or radius that is not NaN clears the assumed flag.
C5_UserOverridesCatalogueUnlessNaN ==
    StarDone =>
        /\ \A f \in StarFields :
              LET merged == IF ~IsNone(UserValue(f)) THEN UserValue(f)
                            ELSE CatalogueValue(f)
              IN  /\ f \in PlainFields => PyEq(star_result.v[f], merged)
                  /\ (f \in BoundedFields /\ Supplied(merged))
                        => PyEq(star_result.v[f], merged)
                  /\ (f \in BoundedFields /\ ~Supplied(merged))
                        => Supplied(star_result.v[f])
        /\ Supplied(UserValue("mass")) => ~star_result.v["mass_assumed"].v
        /\ Supplied(UserValue("radius")) => ~star_result.v["radius_assumed"].v

\* The user's mass 0.6 replaces the catalogue's 0.5 and clears the flag the
\* catalogue had set, while the catalogue's ra stays where the user gave none.
C5_Witness ==
    /\ StarDone
    /\ PyEq(UserValue("mass"), Num(600)) /\ PyEq(CatalogueValue("mass"), Num(500))
    /\ ~IsNone(star_catalogue) /\ star_catalogue.v["mass_assumed"].v
    /\ PyEq(star_result.v["mass"], Num(600)) /\ ~star_result.v["mass_assumed"].v
    /\ IsNone(UserValue("ra")) /\ PyEq(CatalogueValue("ra"), Num(21))
    /\ PyEq(star_result.v["ra"], Num(21))
    /\ PyEq(UserValue("radius"), NaN) /\ PyEq(star_result.v["radius"], Num(100))

NeitherSupplies(f) == ~Supplied(UserValue(f)) /\ ~Supplied(CatalogueValue(f))

\* C6: when neither the catalogue nor the user supplies a mass (a radius),
\* the result carries the fallback 0.1 and mass_assumed (radius_assumed) is
\* true; a missing lower bound is value - 0.5 when value > 0.5 and value / 2
\* otherwise, a missing upper bound is value + 0.5.
C6_Fallbacks ==
    StarDone =>
        \A g \in {"mass", "radius"} :
            LET value == star_result.v[g].v
                lo == star_result.v[g \o "_min"]
                hi == star_result.v[g \o "_max"]
            IN  /\ NeitherSupplies(g)
                   => /\ PyEq(star_result.v[g], Num(100))
                      /\ star_result.v[g \o "_assumed"].v
                /\ NeitherSupplies(g \o "_min")
                   => /\ lo.t = "num"
                      /\ value > 500 => lo.v = value - 500
                      /\ value <= 500 => 2 * lo.v = value
                /\ NeitherSupplies(g \o "_max")
                   => (hi.t = "num" /\ hi.v = value + 500)

\* No mass from either side: 0.1 assumed, bounds 0.05 and 0.6; and a
\* catalogue radius of exactly 0.5 without bounds gets 0.25 and 1.0.
C6_Witness ==
    /\ StarDone
    /\ NeitherSupplies("mass") /\ NeitherSupplies("mass_min")
    /\ NeitherSupplies("mass_max")
    /\ PyEq(star_result.v["mass"], Num(100)) /\ star_result.v["mass_assumed"].v
    /\ PyEq(star_result.v["mass_min"], Num(50))
    /\ PyEq(star_result.v["mass_max"], Num(600))
    /\ PyEq(CatalogueValue("radius"), Num(500)) /\ IsNone(UserValue("radius"))
    /\ NeitherSupplies("radius_min") /\ NeitherSupplies("radius_max")
    /\ PyEq(star_result.v["radius_min"], Num(250))
    /\ PyEq(star_result.v["radius_max"], Num(1000))

-----------------------------------------------------------------------------
(* build, lines 69-72: the cadence *)

\* Times are days.  A time array of the model holds NaN or multiples of one
\* tick, 1 / TicksPerDay day, kept as exact fractions num / den (den > 0).
SecondsPerDay == 86400
TicksPerSecond == 2
TicksPerDay == SecondsPerDay * TicksPerSecond
MaxLen == 4
MaxTick == 5

Rat(num, den) == [t |-> "rat", num |-> num, den |-> den]
Raised(exc) == [t |-> "raise", v |-> exc]

\* numpy.diff(a): a[i + 1] - a[i]; a difference with a NaN operand is NaN.
numpy_diff(a) ==
    [i \in 1..(Len(a) - 1) |->
        IF IsNaN(a[i]) \/ IsNaN(a[i + 1]) THEN NaN
        ELSE Rat(a[i + 1].num - a[i].num, a[i].den)]

\* a * 24 * 60 * 60
Seconds(a) ==
    [i \in 1..Len(a) |->
        IF IsNaN(a[i]) THEN NaN ELSE Rat(a[i].num * SecondsPerDay, a[i].den)]

\* cadence_array[~numpy.isnan(cadence_array)]
DropNaN(a) == SelectSeq(a, LAMBDA x : ~IsNaN(x))

\* KeepPositive with >= for >.
KeepPositive_nonnegative(a) == SelectSeq(a, LAMBDA x : x.num >= 0)

\* cadence_array[cadence_array > 0]
KeepPositive(a) == SelectSeq(a, LAMBDA x : x.num > 0)

\* numpy sorts the values (of one denominator) to take their median.
RECURSIVE numpy_sort(_)
numpy_sort(a) ==
    IF Len(a) <= 1 THEN a
    ELSE LET m == CHOOSE i \in 1..Len(a) :
                      \A j \in 1..Len(a) : a[i].num <= a[j].num
         IN  <<a[m]>> \o numpy_sort([k \in 1..(Len(a) - 1) |->
                                        IF k < m THEN a[k] ELSE a[k + 1]])

\* numpy.nanmedian of an array without NaN: the middle sorted value, the mean
\* of the two middle ones for an even count, NaN for an empty array.
numpy_nanmedian(a) ==
    LET s == numpy_sort(a)
        n == Len(s)
    IN  IF n = 0 THEN NaN
        ELSE IF n % 2 = 1 THEN s[(n + 1) \div 2]
        ELSE Rat(s[n \div 2].num + s[n \div 2 + 1].num, 2 * s[1].den)

\* numpy.round: the nearest integer, a half to the even neighbour.
numpy_round(x) ==
    IF IsNaN(x) THEN NaN
    ELSE LET q == x.num \div x.den
             r == x.num % x.den
         IN  IF 2 * r < x.den THEN Rat(q, 1)
             ELSE IF 2 * r > x.den THEN Rat(q + 1, 1)
             ELSE IF q % 2 = 0 THEN Rat(q, 1) ELSE Rat(q + 1, 1)

\* int(x): "ValueError: cannot convert float NaN to integer"
py_int(x) == IF IsNaN(x) THEN Raised("ValueError") ELSE PyInt(x.num \div x.den)

\* lines 69-72
compute_cadence(time) ==
    py_int(numpy_round(numpy_nanmedian(
        KeepPositive(DropNaN(Seconds(numpy_diff(time)))))))

\* The time arrays of the model: every array of up to MaxLen values out of
\* NaN and the ticks 0..MaxTick, in any order, and the evenly sampled arrays
\* of 120 s (short cadence) and 1800 s (long cadence) spacing.
TimeValues == {Rat(k, TicksPerDay) : k \in 0..MaxTick} \cup {NaN}
EvenlySampled ==
    {[i \in 1..n |-> Rat(start + (i - 1) * spacing * TicksPerSecond, TicksPerDay)] :
        n \in 2..MaxLen, start \in 0..1, spacing \in {120, 1800}}
TimeArrays == UNION {[1..n -> TimeValues] : n \in 0..MaxLen} \cup EvenlySampled

\* lc_build.cadence = int(numpy.round(numpy.nanmedian(cadence_array)))
ComputeCadence ==
    /\ IsNone(cadence)
    /\ cadence' = compute_cadence(time_float)
    /\ UNCHANGED <<time_float, infoVars, starVars, outlierVars, orderVars, arrayVars, oscVars>>

InitCadence ==
    /\ IdleInfo /\ IdleStar /\ IdleOutliers /\ IdleOrder
    /\ IdleArrays /\ IdleOsc
    /\ time_float \in TimeArrays
    /\ cadence = PyNone
NextCadence == ComputeCadence
SpecCadence == InitCadence /\ [][NextCadence]_vars

CadenceDone == ~IsNone(cadence)
\* The positions whose consecutive difference is positive and not NaN, and
\* that difference in ticks.
PositiveDiffs ==
    {i \in 1..(Len(time_float) - 1) :
        /\ ~IsNaN(time_float[i]) /\ ~IsNaN(time_float[i + 1])
        /\ time_float[i + 1].num > time_float[i].num}
DiffAt(i) == time_float[i + 1].num - time_float[i].num
\* The k-th smallest positive difference, by counting.
KthDiff(k) ==
    CHOOSE x \in {DiffAt(i) : i \in PositiveDiffs} :
        /\ Cardinality({i \in PositiveDiffs : DiffAt(i) < x}) < k
        /\ k <= Cardinality({i \in PositiveDiffs : DiffAt(i) <= x})
\* Twice the median of the positive differences, in ticks.
TwiceMedianDiff ==
    LET n == Cardinality(PositiveDiffs)
    IN  KthDiff((n + 1) \div 2) + KthDiff(n \div 2 + 1)

\* C7: whenever some consecutive time difference is positive and not NaN,
\* the cadence build records is the integer nearest to the median, in
\* seconds, of the positive non-NaN differences (a half goes to the even
\* integer); the other differences do not influence it, so when every
\* positive difference is 120 s the cadence is 120.
C7_Cadence ==
    (CadenceDone /\ PositiveDiffs # {}) =>
        /\ cadence.t = "int"
        /\ LET unit == 2 * TicksPerSecond
               off == cadence.v * unit - TwiceMedianDiff
           IN  /\ 2 * off <= unit
               /\ -2 * off <= unit
               /\ (2 * off = unit \/ -2 * off = unit) => cadence.v % 2 = 0
        /\ (\A i \in PositiveDiffs : DiffAt(i) = 120 * TicksPerSecond)
              => cadence.v = 120

\* A cadence computed from an array with a positive, a non-positive and a NaN
\* difference.
C7_Witness ==
    /\ CadenceDone
    /\ PositiveDiffs # {}
    /\ \E i \in 1..(Len(time_float) - 1) : IsNaN(time_float[i + 1])
    /\ \E i \in 1..(Len(time_float) - 1) :
          /\ ~IsNaN(time_float[i]) /\ ~IsNaN(time_float[i + 1])
          /\ time_float[i + 1].num <= time_float[i].num
    /\ cadence.t = "int" /\ cadence.v > 0

-----------------------------------------------------------------------------
(* build, lines 56-76: the outlier stage *)

\* lc.remove_outliers is lightkurve's: astropy.stats.sigma_clip of the flux
\* with the median as centre, the population standard deviation, at most
\* MaxIters passes, and sigma = DefaultSigma on a side whose sigma is None.
\* The flux values of the model are the integers 0..MaxFlux; a light curve
\* is the sequence of the raw indexes of its samples.
MaxFlux == 4
DefaultSigma == 5
MaxIters == 5
Inf == PyFloat("inf")

RECURSIVE SeqSum(_)
SeqSum(a) == IF a = <<>> THEN 0 ELSE Head(a) + SeqSum(Tail(a))

\* One pass: drop the samples below median - lower * std or above
\* median + upper * std of the samples ix.  With n samples of sum s1 and sum
\* of squares s2 the variance is (n * s2 - s1 * s1) / n^2, and a deviation
\* dev / den exceeds sigma * std iff it is positive and
\* dev^2 * n^2 > sigma^2 * den^2 * (n * s2 - s1 * s1).
ClipPass(flux, ix, lower, upper) ==
    LET n == Len(ix)
        med == numpy_nanmedian([k \in 1..n |-> Rat(flux[ix[k]], 1)])
        s1 == SeqSum([k \in 1..n |-> flux[ix[k]]])
        s2 == SeqSum([k \in 1..n |-> flux[ix[k]] * flux[ix[k]]])
        Beyond(dev, sigma) ==
            /\ sigma # Inf
            /\ dev > 0
            /\ dev * dev * n * n
                 > sigma.v * sigma.v * med.den * med.den * (n * s2 - s1 * s1)
        Clipped(i) ==
            \/ Beyond(med.num - flux[i] * med.den, lower)
            \/ Beyond(flux[i] * med.den - med.num, upper)
    IN  IF n = 0 THEN ix ELSE SelectSeq(ix, LAMBDA i : ~Clipped(i))

\* The passes are repeated until one clips nothing or iters passes are done.
RECURSIVE sigma_clip(_, _, _, _, _)
sigma_clip(flux, ix, lower, upper, iters) ==
    LET next == ClipPass(flux, ix, lower, upper)
    IN  IF iters = 0 \/ next = ix THEN ix
        ELSE sigma_clip(flux, next, lower, upper, iters - 1)

SigmaOr(sigma) == IF IsNone(sigma) THEN PyInt(DefaultSigma) ELSE sigma

\* remove_outliers with sigma_lower=sigma_upper.
remove_outliers_symmetric(flux, sigma_upper) ==
    sigma_clip(flux, [i \in 1..Len(flux) |-> i], SigmaOr(sigma_upper),
               SigmaOr(sigma_upper), MaxIters)

\* lc.remove_outliers(sigma_lower=float('inf'), sigma_upper=sigma_upper)
remove_outliers(flux, sigma_upper) ==
    sigma_clip(flux, [i \in 1..Len(flux) |-> i], Inf,
               SigmaOr(sigma_upper), MaxIters)

LightCurve(ix) == [t |-> "lc", v |-> ix]

FluxArrays == UNION {[1..n -> 0..MaxFlux] : n \in 0..MaxLen}
\* object_info.outliers_sigma: None or a number of standard deviations (3 is
\* the default of ObjectInfo).
Sigmas == {PyNone} \cup {PyInt(n) : n \in 1..3}

\* line 68: lc = lc.remove_outliers(sigma_lower=float('inf'),
\*                                  sigma_upper=object_info.outliers_sigma)
RemoveOutliers ==
    /\ IsNone(lc)
    /\ lc' = LightCurve(remove_outliers(flux_float, outliers_sigma))
    /\ UNCHANGED <<flux_float, outliers_sigma, handed>>
    /\ UNCHANGED <<infoVars, starVars, cadenceVars, orderVars, arrayVars, oscVars>>

\* lines 73-75: self.__clean_initial_flux(object_info, time_float, flux_float,
\* flux_err_float, star_info, lc_build.cadence, object_dir): the arrays passed
\* are the raw ones of lines 61-63, and line 76 then overwrites lc.
CleanInitialFluxCall ==
    /\ ~IsNone(lc)
    /\ IsNone(handed)
    /\ handed' = LightCurve([i \in 1..Len(flux_float) |-> i])
    /\ UNCHANGED <<flux_float, outliers_sigma, lc>>
    /\ UNCHANGED <<infoVars, starVars, cadenceVars, orderVars, arrayVars, oscVars>>

InitOutliers ==
    /\ IdleInfo /\ IdleStar /\ IdleCadence /\ IdleOrder
    /\ IdleArrays /\ IdleOsc
    /\ flux_float \in FluxArrays
    /\ outliers_sigma \in Sigmas
    /\ lc = PyNone
    /\ handed = PyNone
NextOutliers == RemoveOutliers \/ CleanInitialFluxCall
SpecOutliers == InitOutliers /\ [][NextOutliers]_vars

\* The samples of a light curve, and the raw samples line 68 removed.
Samples(l) == {l.v[k] : k \in 1..Len(l.v)}
Kept == Samples(lc)
Removed == (1..Len(flux_float)) \ Kept

\* C8: the series build hands to __clean_initial_flux (binning, RMS masking
\* and the later stages) holds no sample the outlier stage removed.
C8_OutliersRemovedFirst ==
    ~IsNone(handed) => Samples(handed) \cap Removed = {}

\* C9 as stated: no sample whose flux is below the mean of the series is
\* removed by the outlier stage.
C9_NoneBelowMeanRemoved ==
    ~IsNone(lc) =>
        \A i \in Removed : flux_float[i] * Len(flux_float) >= SeqSum(flux_float)

\* C9, amended: the outlier stage clips on the upper side only: every sample
\* it removes is brighter than every sample it keeps, and it keeps at least
\* one sample of a series that is not empty.
C9_UpperSideOnly ==
    ~IsNone(lc) =>
        /\ \A i \in Removed : \A j \in Kept : flux_float[i] > flux_float[j]
        /\ flux_float # <<>> => Kept # {}

\* The outlier stage removed a sample in one pass and another one, fainter,
\* in a later pass, and kept the rest.
C9_Witness ==
    /\ ~IsNone(lc)
    /\ Kept # {}
    /\ \E i \in Removed : \E j \in Removed : flux_float[i] < flux_float[j]

-----------------------------------------------------------------------------
(* build, lines 68-136, and __clean_initial_flux: the order of the stages *)

\* b_pc names the block of code build executes next, b_log the stages that
\* have acted so far.  The options are those object_info attributes the
\* blocks test; an option that is None or an object is kept as "is not None".
\* Periods, ratios and windows are exact rationals.
MaxPowerIndex == 1

Position(order, stage) == CHOOSE i \in 1..Len(order) : order[i] = stage

\* The order the claim states, and the successor it would give.
ClaimedOrder ==
    <<"outliers", "binning", "prepare", "rms_mask", "smooth", "periodogram",
      "select_period", "detrend", "oscillations", "initial_mask",
      "transit_mask", "final_periodogram", "done">>
Successor_detrend_first(pc) == ClaimedOrder[Position(ClaimedOrder, pc) + 1]

\* The blocks of build in the order of the code: lines 68-72, then
\* __clean_initial_flux (lines 433, 443, 446, 488), then lines 76, 79, 83,
\* 94, 106, 119 and 132.
Blocks ==
    <<"outliers", "binning", "prepare", "rms_mask", "smooth", "periodogram",
      "select_period", "oscillations", "detrend", "initial_mask",
      "transit_mask", "final_periodogram", "done">>
Successor(pc) == Blocks[Position(Blocks, pc) + 1]

\* lc_build.detrend_period * object_info.auto_detrend_ratio (line 105)
RatTimes(x, y) == Rat(x.num * y.num, x.den * y.den)

\* periodogram.period[i] of the periodogram of lines 77-78, whose periods
\* run from maximum_period = 15 days down as the frequency grows.
PeriodAt(i) == Rat(15, i + 1)

\* __calculate_max_significant_period with the test on the index left out.
calculate_max_significant_period_any_bin(max_power_index) ==
    PeriodAt(max_power_index)

\* __calculate_max_significant_period: the period of the strongest bin when
\* max_power_index > 0.0008, else None.
calculate_max_significant_period(max_power_index) ==
    IF 10000 * max_power_index > 8 THEN PeriodAt(max_power_index) ELSE PyNone

Options ==
    [binning : {1, 2},
     prepare_algorithm : BOOLEAN,
     high_rms_enabled : BOOLEAN,
     smooth_enabled : BOOLEAN,
     cadence : {ShortCadenceLimit, ShortCadenceLimit + 1},
     auto_detrend_period : {PyNone, Rat(1, 2), Rat(3, 1)},
     auto_detrend_enabled : BOOLEAN,
     auto_detrend_ratio : {Rat(1, 4), Rat(1, 2)},
     max_power_index : 0..MaxPowerIndex,
     reduce_simple_oscillations : BOOLEAN,
     initial_mask : BOOLEAN,
     initial_transit_mask : BOOLEAN]

\* A block at b_pc: it acts (and is logged) when its condition holds, and
\* control passes to the next block either way.
Step(block, condition, period) ==
    /\ b_pc = block
    /\ b_pc' = Successor(block)
    /\ b_log' = IF condition THEN Append(b_log, block) ELSE b_log
    /\ b_period' = period
    /\ b_window' = IF block = "detrend" /\ condition
                   THEN RatTimes(period, b_opts.auto_detrend_ratio)
                   ELSE b_window
    /\ UNCHANGED <<b_opts, infoVars, starVars, cadenceVars, outlierVars,
                   arrayVars, oscVars>>

\* lines 68-72: remove_outliers, then the cadence
OutliersAndCadence == Step("outliers", TRUE, b_period)
\* lines 433-442: if object_info.binning > 1
Binning == Step("binning", b_opts.binning > 1, b_period)
\* lines 443-445: if object_info.prepare_algorithm is not None
Prepare == Step("prepare", b_opts.prepare_algorithm, b_period)
\* lines 446-487: if object_info.high_rms_enabled
RmsMask == Step("rms_mask", b_opts.high_rms_enabled, b_period)
\* lines 427, 488-491: if is_short_cadence and object_info.smooth_enabled
Smooth ==
    Step("smooth",
         b_opts.cadence <= ShortCadenceLimit /\ b_opts.smooth_enabled, b_period)
\* lines 76-78
Periodogram == Step("periodogram", TRUE, b_period)
\* lines 79-82: the given period whatever auto_detrend_enabled says, else
\* the one __calculate_max_significant_period returns, else the one
\* lc_build came with.  max_power_index is numpy.argmax(periodogram.power),
\* which the data decide.
SelectDetrendPeriod ==
    Step("select_period", FALSE,
         IF ~IsNone(b_opts.auto_detrend_period) THEN b_opts.auto_detrend_period
         ELSE IF b_opts.auto_detrend_enabled
              THEN calculate_max_significant_period(b_opts.max_power_index)
              ELSE b_period)
\* lines 83-93: if object_info.reduce_simple_oscillations
ReduceOscillations ==
    Step("oscillations", b_opts.reduce_simple_oscillations, b_period)
\* lines 94-105: if lc_build.detrend_period is not None
Detrend == Step("detrend", ~IsNone(b_period), b_period)
\* lines 106-118: if object_info.initial_mask is not None
InitialMask == Step("initial_mask", b_opts.initial_mask, b_period)
\* lines 119-131: if object_info.initial_transit_mask is not None
TransitMask == Step("transit_mask", b_opts.initial_transit_mask, b_period)
\* lines 132-136
FinalPeriodogram == Step("final_periodogram", TRUE, b_period)

\* lc_build.detrend_period is None when the builder returns lc_build.
InitOrder ==
    /\ IdleInfo /\ IdleStar /\ IdleCadence /\ IdleOutliers
    /\ IdleArrays /\ IdleOsc
    /\ b_pc = "outliers"
    /\ b_opts \in Options
    /\ b_period = PyNone
    /\ b_log = <<>>
    /\ b_window = PyNone
NextOrder ==
    \/ OutliersAndCadence \/ Binning \/ Prepare \/ RmsMask \/ Smooth
    \/ Periodogram \/ SelectDetrendPeriod \/ ReduceOscillations \/ Detrend
    \/ InitialMask \/ TransitMask \/ FinalPeriodogram
SpecOrder == InitOrder /\ [][NextOrder]_vars

\* The stages that have acted did so in the given order.
InOrder(order) ==
    \A i \in 1..Len(b_log) : \A j \in 1..Len(b_log) :
        i < j => Position(order, b_log[i]) < Position(order, b_log[j])
Acted(stage) == \E i \in 1..Len(b_log) : b_log[i] = stage
BuildDone == b_pc = "done"

\* C10 as stated: the stages act in the order cadence and outlier stage,
\* binning, prepare hook, RMS mask, smoothing, periodogram, detrend,
\* oscillation reduction, user masking (ranges, then transits).
C10_ClaimedOrder == InOrder(ClaimedOrder)

\* C10, amended: the stages act in the order outlier and cadence stage,
\* binning, prepare hook, RMS mask, smoothing, periodogram, oscillation
\* reduction, detrend, masking of ranges, masking of transits, final
\* periodogram; with a detrend period and reduce_simple_oscillations set,
\* oscillation reduction has acted before the flux is detrended, and the
\* user masks act after both.
C10_CodeOrder ==
    /\ InOrder(<<"outliers", "binning", "prepare", "rms_mask", "smooth",
                 "periodogram", "oscillations", "detrend", "initial_mask",
                 "transit_mask", "final_periodogram">>)
    /\ (b_pc = "initial_mask" /\ ~IsNone(b_period)
            /\ b_opts.reduce_simple_oscillations)
          => /\ Acted("oscillations") /\ Acted("detrend")
             /\ ~Acted("initial_mask") /\ ~Acted("transit_mask")

\* A build in which every stage acted.
C10_Witness ==
    /\ BuildDone
    /\ \A k \in 1..(Len(Blocks) - 1) :
          Blocks[k] # "select_period" => Acted(Blocks[k])

-----------------------------------------------------------------------------
(* build, lines 106-131: the user's masks.  Times are exact rationals: a    *)
(* series carries integers in clean_time and the number of them that make   *)
(* one day in per_day.  The days of a mask (start, end, P, T0) are whole    *)
(* slots, SlotsPerDay to the day; D is in minutes.                          *)

SlotsPerDay == 4
MaxSlot == 6
MinutesPerDay == 60 * 24

Arrays(time, flux, flux_err, per_day) ==
    [t |-> "arrays", clean_time |-> time, flatten_flux |-> flux,
     clean_flux_err |-> flux_err, per_day |-> per_day, flux_den |-> 1]

ndarray(a) == [t |-> "ndarray", v |-> a]

\* ndarray | ndarray, and Python's False | False
BitOr(x, y) ==
    IF x.t = "bool" /\ y.t = "bool" THEN PyBool(x.v \/ y.v)
    ELSE ndarray([i \in 1..Len(x.v) |-> x.v[i] \/ y.v[i]])

Invert(mask) == ndarray([i \in 1..Len(mask.v) |-> ~mask.v[i]])

\* a[mask] for a boolean ndarray of the length of a
Compress(a, mask) ==
    LET F[i \in 0..Len(a)] ==
            IF i = 0 THEN <<>>
            ELSE IF mask[i] THEN Append(F[i - 1], a[i]) ELSE F[i - 1]
    IN  F[Len(a)]

\* a[index] of a one-dimensional ndarray under numpy 1.23.5 (setup.py). A
\* list index is converted with numpy.asarray: a list of Python booleans is a
\* boolean index of its own length, a list holding a boolean ndarray is a
\* two-dimensional index.
GetItem(a, index) ==
    IF index.t = "list"
    THEN IF \E i \in 1..Len(index.v) : index.v[i].t # "bool"
         THEN Raised("IndexError")
         ELSE IF Len(index.v) = Len(a)
              THEN ndarray(Compress(a, [i \in 1..Len(a) |-> index.v[i].v]))
              ELSE Raised("IndexError")
    ELSE IF Len(index.v) = Len(a) THEN ndarray(Compress(a, index.v))
         ELSE Raised("IndexError")

\* clean_time < bound and clean_time > bound, bound a float in days
LessThan(s, bound) ==
    ndarray([i \in 1..Len(s.clean_time) |->
                ~IsNaN(bound) /\ s.clean_time[i] * SlotsPerDay < bound.v * s.per_day])
GreaterThan(s, bound) ==
    ndarray([i \in 1..Len(s.clean_time) |->
                ~IsNaN(bound) /\ s.clean_time[i] * SlotsPerDay > bound.v * s.per_day])

\* the three assignments of an iteration; the first that raises ends the build
Select(s, index) ==
    LET time == GetItem(s.clean_time, index)
        flux == GetItem(s.flatten_flux, index)
        flux_err == GetItem(s.clean_flux_err, index)
    IN  IF time.t = "raise" THEN time
        ELSE IF flux.t = "raise" THEN flux
        ELSE IF flux_err.t = "raise" THEN flux_err
        ELSE [s EXCEPT !.clean_time = time.v, !.flatten_flux = flux.v,
                       !.clean_flux_err = flux_err.v]

\* lines 114-118: one iteration of the initial_mask loop
MaskRange(s, mask_range) ==
    LET mask == PyList(<<BitOr(
                    IF ~IsNaN(mask_range[2]) THEN LessThan(s, mask_range[1])
                    ELSE PyBool(FALSE),
                    IF ~IsNaN(mask_range[2]) THEN GreaterThan(s, mask_range[2])
                    ELSE PyBool(FALSE))>>)
    IN  Select(s, mask)

\* foldedleastsquares.transit_mask(t, period, duration, T0):
\*   numpy.abs((t - T0 + 0.5 * period) % period - 0.5 * period) < 0.5 * duration
\* doubled and brought to the denominator per_day * SlotsPerDay; duration is
\* D / 60 / 24. A zero period gives nan, which is below nothing.
TransitDistance(s, i, P, T0) ==
    LET y == 2 * s.clean_time[i] * SlotsPerDay - 2 * T0 * s.per_day
                + P * s.per_day
        d == (y % (2 * P * s.per_day)) - P * s.per_day
    IN  IF d < 0 THEN -d ELSE d

transit_mask_inclusive(s, P, D, T0) ==
    ndarray([i \in 1..Len(s.clean_time) |->
                P # 0 /\ TransitDistance(s, i, P, T0) * MinutesPerDay
                            <= D * s.per_day * SlotsPerDay])

transit_mask(s, P, D, T0) ==
    ndarray([i \in 1..Len(s.clean_time) |->
                P # 0 /\ TransitDistance(s, i, P, T0) * MinutesPerDay
                            < D * s.per_day * SlotsPerDay])

\* lines 126-131: one iteration of the initial_transit_mask loop
MaskTransit_flux_unmasked(s, tm) ==
    LET mask == transit_mask(s, tm.P, tm.D, tm.T0)
        time == GetItem(s.clean_time, Invert(mask))
    IN  [s EXCEPT !.clean_time = time.v]

MaskTransit(s, tm) ==
    LET mask == transit_mask(s, tm.P, tm.D, tm.T0)
    IN  Select(s, Invert(mask))

TransitSpec(P, T0, D) == [t |-> "dict", P |-> P, T0 |-> T0, D |-> D]

MaskEntry(s, entry) ==
    IF entry.t = "dict" THEN MaskTransit(s, entry)
    ELSE MaskRange(s, entry.v)

\* a `for` loop over the entries: what each iteration was applied to and what
\* it gave, up to the iteration that raised
RECURSIVE MaskLoop(_, _)
MaskLoop(s, entries) ==
    IF entries = <<>> \/ s.t = "raise" THEN <<>>
    ELSE LET after == MaskEntry(s, Head(entries))
         IN  <<[entry |-> Head(entries), before |-> s, after |-> after]>>
                \o MaskLoop(after, Tail(entries))

Masked(s, entries) ==
    LET steps == MaskLoop(s, entries)
    IN  IF steps = <<>> THEN s ELSE steps[Len(steps)].after

\* lines 106-118
ApplyInitialMask ==
    /\ clean_pc = "initial_mask"
    /\ IF object_info.initial_mask # PyNone
       THEN /\ clean' = Masked(clean, object_info.initial_mask.v)
            /\ trail' = trail \o MaskLoop(clean, object_info.initial_mask.v)
       ELSE UNCHANGED <<clean, trail>>
    /\ clean_pc' = IF clean'.t = "raise" THEN "raised" ELSE "transit_mask"
    /\ UNCHANGED <<object_info, infoVars, starVars, cadenceVars, outlierVars,
                   orderVars, oscVars>>

\* lines 119-131
ApplyTransitMask ==
    /\ clean_pc = "transit_mask"
    /\ IF object_info.initial_transit_mask # PyNone
       THEN /\ clean' = Masked(clean, object_info.initial_transit_mask.v)
            /\ trail' = trail
                  \o MaskLoop(clean, object_info.initial_transit_mask.v)
       ELSE UNCHANGED <<clean, trail>>
    /\ clean_pc' = IF clean'.t = "raise" THEN "raised" ELSE "done"
    /\ UNCHANGED <<object_info, infoVars, starVars, cadenceVars, outlierVars,
                   orderVars, oscVars>>

\* an ndarray of times in increasing order, from the set of its values
SortedSeq(S) ==
    LET F[k \in 0..Cardinality(S)] ==
            IF k = 0 THEN <<>>
            ELSE LET rest == S \ {F[k - 1][j] : j \in 1..(k - 1)}
                 IN  Append(F[k - 1],
                            CHOOSE x \in rest : \A y \in rest : x <= y)
    IN  F[Cardinality(S)]

\* The state at line 106: a series of strictly increasing times in which
\* every row has a flux and an error of its own, initial_mask and
\* initial_transit_mask None, empty, or of one or two entries.
InitMask ==
    LET RowSeries(S) ==
            LET time == SortedSeq(S)
            IN  Arrays(time, [i \in 1..Len(time) |-> Num(100 + time[i])],
                       [i \in 1..Len(time) |-> Num(200 + time[i])],
                       SlotsPerDay)
        MaskRanges ==
            {PyList(<<Num(1), Num(4)>>), PyList(<<Num(2), NaN>>),
             PyList(<<NaN, Num(3)>>), PyList(<<Num(5), Num(2)>>)}
        InitialMasks ==
            {PyNone, PyList(<<>>)} \cup {PyList(<<r>>) : r \in MaskRanges}
                \cup {PyList(<<r, r>>) : r \in MaskRanges}
        TransitSpecs ==
            {TransitSpec(2, 1, 720), TransitSpec(4, 1, 360),
             TransitSpec(3, 0, 1440), TransitSpec(8, 7, 720)}
        InitialTransitMasks ==
            {PyNone, PyList(<<>>)} \cup {PyList(<<tm>>) : tm \in TransitSpecs}
                \cup {PyList(<<TransitSpec(2, 1, 720),
                               TransitSpec(3, 0, 1440)>>)}
    IN  /\ IdleInfo /\ IdleStar /\ IdleCadence /\ IdleOutliers /\ IdleOrder
        /\ IdleOsc
        /\ \E S \in SUBSET (0..MaxSlot) : clean = RowSeries(S)
        /\ \E im \in InitialMasks, itm \in InitialTransitMasks :
              object_info =
                  [initial_mask |-> im, initial_transit_mask |-> itm]
        /\ clean_pc = "initial_mask"
        /\ trail = <<>>

NextMask == ApplyInitialMask \/ ApplyTransitMask

SpecMask == InitMask /\ [][NextMask]_vars

-----------------------------------------------------------------------------
(* __clean_initial_flux, lines 446-487: the mask of the areas of high RMS.  *)
(* A standard deviation is kept as the pair (n, w) of sqrt(w) / n, with     *)
(* w = n * sum(v^2) - sum(v)^2 over the n values v of a bin, so that two of *)
(* them compare exactly.                                                    *)

GapDays == 3
HoursPerDay == 24

Std(values) ==
    IF values = <<>> THEN NaN
    ELSE LET n == Len(values)
             sum == SeqSum([i \in 1..n |-> values[i].v])
             squares == SeqSum([i \in 1..n |-> values[i].v * values[i].v])
         IN  [t |-> "std", n |-> n, w |-> n * squares - sum * sum]

\* sqrt(a.w) / a.n <= sqrt(b.w) / b.n
StdLeq(a, b) == a.w * b.n * b.n <= b.w * a.n * a.n

RECURSIVE Gcd(_, _)
Gcd(a, b) == IF b = 0 THEN a ELSE Gcd(b, a % b)

\* scipy.stats.binned_statistic(x, values, statistic, bins) for a float bins
\* (scipy 1.11.4): non-finite values are refused, the number of bins is bins
\* cut to an integer, the edges are numpy.linspace(min(x), max(x), bins + 1)
\* (half a unit to each side of x when all of x is one value), a value is in
\* the bin of the last edge not above it and the maximum is in the last
\* bin; an empty x and less than one bin are refused.
binned_statistic(x, values, bins) ==
    LET nb == bins.num \div bins.den
        smin == CHOOSE v \in {x[i] : i \in 1..Len(x)} :
                    \A i \in 1..Len(x) : v <= x[i]
        smax == CHOOSE v \in {x[i] : i \in 1..Len(x)} :
                    \A i \in 1..Len(x) : v >= x[i]
        binOf(v) == LET b == ((v - smin) * nb) \div (smax - smin) + 1
                    IN  IF b > nb THEN nb ELSE b
    IN  IF \E i \in 1..Len(values) : IsNaN(values[i])
        THEN Raised("ValueError")
        ELSE IF Len(x) = 0 \/ nb < 1 THEN Raised("ValueError")
        ELSE LET binnumber == [i \in 1..Len(x) |->
                                  IF smin = smax THEN nb \div 2 + 1
                                  ELSE binOf(x[i])]
                 inBin(b) ==
                     SelectSeq([i \in 1..Len(x) |-> <<binnumber[i], values[i]>>],
                               LAMBDA p : p[1] = b)
             IN  [t |-> "binned", bins |-> nb, binnumber |-> binnumber,
                  values |-> [b \in 1..nb |->
                                 [i \in 1..Len(inBin(b)) |-> inBin(b)[i][2]]]]

\* numpy.nanmedian(bin_stds[bin_stds > 0]): the two middle values of the
\* sorted positive ones (one value twice for an odd count), NaN for none
RECURSIVE SortStds(_)
SortStds(a) ==
    IF Len(a) <= 1 THEN a
    ELSE LET m == CHOOSE i \in 1..Len(a) :
                      \A j \in 1..Len(a) : StdLeq(a[i], a[j])
         IN  <<a[m]>> \o SortStds([k \in 1..(Len(a) - 1) |->
                                      IF k < m THEN a[k] ELSE a[k + 1]])

stds_median(bin_stds) ==
    LET positive == SortStds(SelectSeq(bin_stds,
                                       LAMBDA d : ~IsNaN(d) /\ d.w > 0))
        n == Len(positive)
    IN  IF n = 0 THEN NaN
        ELSE [t |-> "median", lo |-> positive[(n + 1) \div 2],
              hi |-> positive[n \div 2 + 1]]

\* bin_stds > stds_median * high_rms_threshold for one bin: with x the bin's
\* standard deviation divided by the threshold, x > (lo + hi) / 2
TooHigh(std, median, threshold) ==
    IF IsNaN(std) \/ IsNaN(median) THEN FALSE
    ELSE LET a == median.lo
             c == median.hi
             \* x^2, c^2 and a^2 over one denominator, x doubled
             X0 == 4 * threshold.den * threshold.den * std.w
                      * a.n * a.n * c.n * c.n
             C0 == c.w * threshold.num * threshold.num * std.n * std.n
                      * a.n * a.n
             A0 == a.w * threshold.num * threshold.num * std.n * std.n
                      * c.n * c.n
             g == Gcd(Gcd(X0, C0), A0)
             X == X0 \div g
             C == C0 \div g
             A == A0 \div g
         IN  IF a = c THEN X0 > 4 * C0
             ELSE IF X <= 4 * A THEN FALSE
             ELSE IF X > 4 * C THEN TRUE
             \* sqrt(X) > sqrt(A) + sqrt(C), both sides positive
             ELSE /\ X - A - C > 0
                  /\ (X - A - C) * (X - A - C) > 4 * A * C

\* lines 450-452: the indexes (from 0) where the next sample is more than
\* three days later, then len(clean_time)
Jumps(s) ==
    SelectSeq([j \in 1..(Len(s.clean_time) - 1) |-> j - 1],
              LAMBDA j : s.clean_time[j + 2] - s.clean_time[j + 1]
                            > GapDays * s.per_day)
        \o <<Len(s.clean_time)>>

\* lines 460-471 for clean_time[previous_jump_index:jumpIndex]: what
\* numpy.append(high_std_mask[0], high_std_mask) is, or what was raised
SegmentMask(s, oi, previous_jump_index, jumpIndex) ==
    LET len == jumpIndex - previous_jump_index
        time_partial == SubSeq(s.clean_time, previous_jump_index + 1, jumpIndex)
        flux_partial == SubSeq(s.flatten_flux, previous_jump_index + 1, jumpIndex)
    IN  IF len < 2 THEN Raised("IndexError")
        ELSE LET bins == Rat((time_partial[len] - time_partial[2]) * HoursPerDay,
                             s.per_day * oi.high_rms_bin_hours)
                 binned == binned_statistic(Tail(time_partial),
                                            Tail(flux_partial), bins)
             IN  IF binned.t = "raise" THEN binned
                 ELSE LET bin_stds == [b \in 1..binned.bins |->
                                          Std(binned.values[b])]
                          median == stds_median(bin_stds)
                          high_std_mask ==
                              [i \in 1..(len - 1) |->
                                  TooHigh(bin_stds[binned.binnumber[i]],
                                          median, oi.high_rms_threshold)]
                      IN  ndarray(<<high_std_mask[1]>> \o high_std_mask)

\* lines 459-477: the loop over jumps
RECURSIVE HighRmsMask(_, _, _, _)
HighRmsMask(s, oi, previous_jump_index, jumps) ==
    IF jumps = <<>> THEN ndarray(<<>>)
    ELSE LET part == SegmentMask(s, oi, previous_jump_index, Head(jumps))
             rest == HighRmsMask(s, oi, Head(jumps), Tail(jumps))
         IN  IF part.t = "raise" THEN part
             ELSE IF rest.t = "raise" THEN rest
             ELSE ndarray(part.v \o rest.v)

\* lines 446-487
MaskHighRms(s, oi) ==
    LET entire_high_rms_mask == HighRmsMask(s, oi, 0, Jumps(s))
    IN  IF entire_high_rms_mask.t = "raise" THEN entire_high_rms_mask
        ELSE Select(s, Invert(entire_high_rms_mask))

\* what a stage of __clean_initial_flux or build leaves in the trail
StageStep(name, before, after) ==
    [entry |-> [t |-> "stage", v |-> name], before |-> before,
     after |-> after]

\* a stage that runs when its condition holds and leaves `clean` as it is
\* otherwise; an exception ends the build
Stage(name, next, condition, result) ==
    /\ clean_pc = name
    /\ IF condition
       THEN /\ clean' = result
            /\ trail' = Append(trail, StageStep(name, clean, result))
       ELSE UNCHANGED <<clean, trail>>
    /\ clean_pc' = IF clean'.t = "raise" THEN "raised" ELSE next
    /\ UNCHANGED <<object_info, infoVars, starVars, cadenceVars, outlierVars,
                   orderVars, oscVars>>

\* lines 446-487
CleanHighRms ==
    Stage("high_rms", "smooth", object_info.high_rms_enabled,
          MaskHighRms(clean, object_info))

MaxSegment == 7
HotLevel == 3

\* a stretch of len samples, one per slot from slot first on, whose flux
\* goes back and forth between 0 and quiet, and between 0 and HotLevel in
\* the pair of samples number hot
Stretch(first, len, quiet, hot) ==
    Arrays([i \in 1..len |-> first + i - 1],
           [i \in 1..len |->
               Num(IF i % 2 = 1 THEN 0
                   ELSE IF i \div 2 = hot THEN HotLevel ELSE quiet)],
           [i \in 1..len |-> Num(1)], SlotsPerDay)

\* s followed by r
Joined(s, r) ==
    [s EXCEPT !.clean_time = s.clean_time \o r.clean_time,
              !.flatten_flux = s.flatten_flux \o r.flatten_flux,
              !.clean_flux_err = s.clean_flux_err \o r.clean_flux_err]

\* The state at line 446: one stretch, or two with three days or a slot more
\* than three days from the last sample of the first to the first sample of
\* the second; high_rms_bin_hours of two slots, high_rms_threshold 2.5 (the
\* default) or 1.5.
InitRms ==
    LET Shapes == (1..MaxSegment) \X (0..1) \X (0..((MaxSegment + 1) \div 2))
        One(first, shape) == Stretch(first, shape[1], shape[2], shape[3])
        Series ==
            {One(0, a) : a \in Shapes}
                \cup {Joined(One(0, a),
                             One(a[1] - 1 + GapDays * SlotsPerDay + extra, b)) :
                        a \in Shapes, b \in Shapes, extra \in 0..1}
    IN  /\ IdleInfo /\ IdleStar /\ IdleCadence /\ IdleOutliers /\ IdleOrder
        /\ IdleOsc
        /\ clean \in Series
        /\ \E enabled \in BOOLEAN, threshold \in {Rat(5, 2), Rat(3, 2)} :
              /\ enabled \/ threshold = Rat(5, 2)
              /\ object_info =
                    [high_rms_enabled |-> enabled,
                     high_rms_bin_hours |-> 2 * (HoursPerDay \div SlotsPerDay),
                     high_rms_threshold |-> threshold]
        /\ clean_pc = "high_rms"
        /\ trail = <<>>

NextRms == CleanHighRms

SpecRms == InitRms /\ [][NextRms]_vars

-----------------------------------------------------------------------------
(* The stages of __clean_initial_flux and build that change the three       *)
(* arrays, one after the other on `clean`. prepare_algorithm is None.       *)

sg_window_len == 11

\* line 439, all edges taken for bin_edges[1:]
bin_centers_all_edges(x, per_day, bins) ==
    LET lo == x[1]
        hi == x[Len(x)]
    IN  [k \in 1..(bins + 1) |->
            IF lo = hi THEN 2 * bins * lo - bins * per_day + (2 * k - 3) * per_day
            ELSE 2 * bins * lo + (2 * k - 3) * (hi - lo)]

\* lines 438-439: bin_edges[1:] - bin_width / 2 for the edges of
\* binned_statistic over the sorted times x, in units of which
\* 2 * bins * per_day make a day
bin_centers(x, per_day, bins) ==
    LET lo == x[1]
        hi == x[Len(x)]
    IN  [k \in 1..bins |->
            IF lo = hi THEN 2 * bins * lo - bins * per_day + (2 * k - 1) * per_day
            ELSE 2 * bins * lo + (2 * k - 1) * (hi - lo)]

\* lines 433-442: the means of the bins over one denominator, NaN for a bin
\* without samples
Binned(s, oi) ==
    LET bins == Rat(Len(s.clean_time), oi.binning)
        binned == binned_statistic(s.clean_time, s.flatten_flux, bins)
    IN  IF binned.t = "raise" THEN binned
        ELSE LET count(b) == Len(binned.values[b])
                 sum(b) == SeqSum([i \in 1..count(b) |-> binned.values[b][i].v])
                 lcm[b \in 0..binned.bins] ==
                     IF b = 0 THEN 1
                     ELSE IF count(b) = 0 THEN lcm[b - 1]
                     ELSE (lcm[b - 1] * count(b)) \div Gcd(lcm[b - 1], count(b))
                 den == lcm[binned.bins]
             IN  [s EXCEPT
                    !.clean_time = bin_centers(s.clean_time, s.per_day, binned.bins),
                    !.per_day = 2 * binned.bins * s.per_day,
                    !.flatten_flux =
                        [b \in 1..binned.bins |->
                            IF count(b) = 0 THEN NaN
                            ELSE Num(sum(b) * (den \div count(b)))],
                    !.flux_den = den * s.flux_den,
                    !.clean_flux_err =
                        [b \in 1..binned.bins |-> Std(binned.values[b])]]

\* flux after a filter of a library (savgol_filter, the subtraction of the
\* fitted oscillations, wotan's flatten): an array of the same length
Filtered(s, by) ==
    [s EXCEPT !.flatten_flux =
                  [i \in 1..Len(s.flatten_flux) |->
                      [t |-> "filtered", by |-> by, of |-> s.flatten_flux[i]]]]

\* lines 156-170: savgol_filter(flux, 11, 3) refuses less than a window
smooth(s) ==
    IF Len(s.flatten_flux) < sg_window_len THEN Raised("ValueError")
    ELSE Filtered(s, "savgol_filter")

\* lines 433-442
CleanBinning ==
    Stage("binning", "high_rms", object_info.binning > 1,
          Binned(clean, object_info))

\* lines 488-491
CleanSmooth ==
    Stage("smooth", "oscillations",
          object_info.is_short_cadence /\ object_info.smooth_enabled,
          smooth(clean))

\* lines 83-93: flux is returned as it was when no fit was subtracted
ReduceOscillationsFlux ==
    \E subtracted \in BOOLEAN :
        Stage("oscillations", "detrend", object_info.reduce_simple_oscillations,
              IF subtracted THEN Filtered(clean, "oscillations") ELSE clean)

\* lines 94-105
DetrendFlux ==
    Stage("detrend", "initial_mask", object_info.detrend_period # PyNone,
          Filtered(clean, "flatten"))

\* The state at line 433: a stretch of one sample, of MaxSegment or of
\* 3 * MaxSegment + 1, alone or followed after more than three days by one
\* of one sample or of MaxSegment; every stage on or off.
InitStages ==
    LET Shapes == {1, MaxSegment} \X {1} \X (0..1)
        One(first, shape) == Stretch(first, shape[1], shape[2], shape[3])
        Long == {One(0, a) : a \in {3 * MaxSegment + 1} \X {1} \X (0..1)}
        Series ==
            Long \cup {One(0, a) : a \in Shapes}
                \cup {Joined(a, One(Len(a.clean_time) + GapDays * SlotsPerDay, b)) :
                        a \in Long \cup {One(0, c) : c \in Shapes}, b \in Shapes}
    IN  /\ IdleInfo /\ IdleStar /\ IdleCadence /\ IdleOutliers /\ IdleOrder
        /\ IdleOsc
        /\ clean \in Series
        /\ \E binning \in {0, 2, 3}, enabled \in [1..4 -> BOOLEAN],
              im \in {PyNone, PyList(<<PyList(<<Num(2), NaN>>)>>),
                      PyList(<<PyList(<<Num(1), Num(4)>>)>>)},
              itm \in {PyNone, PyList(<<TransitSpec(4, 1, 360)>>),
                       PyList(<<TransitSpec(4, 1, 360),
                                TransitSpec(3, 0, 1440)>>)} :
              object_info =
                  [binning |-> binning,
                   high_rms_enabled |-> enabled[1],
                   high_rms_bin_hours |-> 2 * (HoursPerDay \div SlotsPerDay),
                   high_rms_threshold |-> Rat(5, 2),
                   is_short_cadence |-> TRUE,
                   smooth_enabled |-> enabled[2],
                   reduce_simple_oscillations |-> enabled[3],
                   detrend_period |-> IF enabled[4] THEN Num(1) ELSE PyNone,
                   initial_mask |-> im,
                   initial_transit_mask |-> itm]
        /\ clean_pc = "binning"
        /\ trail = <<>>

NextStages ==
    \/ CleanBinning
    \/ CleanHighRms
    \/ CleanSmooth
    \/ ReduceOscillationsFlux
    \/ DetrendFlux
    \/ ApplyInitialMask
    \/ ApplyTransitMask

SpecStages == InitStages /\ [][NextStages]_vars

-----------------------------------------------------------------------------
(* __reduce_simple_oscillations, lines 186-250. The periodogram and the     *)
(* sine fit are lightkurve's and scipy's: an iteration takes their outcome  *)
(* (snr, A, A_err, p_err and the standard deviation of flux_corr) from      *)
(* small sets. Standard deviations are whole levels, A and A_err tenths of  *)
(* a level, p_err tenths; amplitude_threshold is the default 0.1.           *)

MaxStd == 21
InitialSnr == 10

\* lines 287-291 without the comparison of the two standard deviations
is_simple_oscillation_good_enough_any_std(snr, thr, A, A_err, p_err, std, corr) ==
    /\ snr > thr
    /\ A_err = Inf \/ (A > 0 /\ 5 * A_err.v < A)
    /\ p_err = Inf \/ p_err.v < 2
    /\ ~IsNaN(std) /\ (IF std.v = 0 THEN A > 0 ELSE A > std.v)

\* lines 287-291 without the comparison of the amplitude
is_simple_oscillation_good_enough_any_amplitude(snr, thr, A, A_err, p_err, std, corr) ==
    /\ snr > thr
    /\ A_err = Inf \/ (A > 0 /\ 5 * A_err.v < A)
    /\ p_err = Inf \/ p_err.v < 2
    /\ ~IsNaN(std) /\ ~IsNaN(corr) /\ corr.v < std.v

\* lines 287-291, with amplitude_threshold 0.1 (A is in tenths of a level):
\*   snr > snr_threshold and (A_err == inf or A_err / A < 0.2)
\*   and (p_err == inf or p_err < 0.2) and A / flux_std > amplitude_threshold
\*   and flux_corr_std < flux_std
is_simple_oscillation_good_enough(snr, thr, A, A_err, p_err, std, corr) ==
    /\ snr > thr
    /\ A_err = Inf \/ (A > 0 /\ 5 * A_err.v < A)
    /\ p_err = Inf \/ p_err.v < 2
    /\ ~IsNaN(std) /\ (IF std.v = 0 THEN A > 0 ELSE A > std.v)
    /\ ~IsNaN(corr) /\ corr.v < std.v

\* lines 199-246: one pass of `while remove_signal`
FitOscillation ==
    /\ osc_pc = "loop"
    /\ remove_signal
    /\ \E snr \in {3, 6, 11}, A \in {0, 5, 10 * MaxStd + 1},
          A_err \in {Inf, Num(1), Num(3)}, p_err \in {Inf, Num(1), Num(3)},
          flux_corr_std \in {Num(v) : v \in 0..MaxStd} \cup {NaN} :
          LET good == is_simple_oscillation_good_enough(
                          snr, snr_threshold, A, A_err, p_err, flux_std,
                          flux_corr_std)
          IN  /\ remove_signal' = (snr > snr_threshold /\ good)
              /\ flux_std' = IF remove_signal' THEN flux_corr_std
                             ELSE flux_std
              /\ number' = IF remove_signal' THEN number + 1 ELSE number
    /\ UNCHANGED <<snr_threshold, osc_pc, rso_call, rso, rso_log, rso_pc>>
    /\ UNCHANGED <<art_opts, art_pc, art_log, art_result>>
    /\ UNCHANGED <<infoVars, starVars, cadenceVars, outlierVars, orderVars,
                   arrayVars>>

\* lines 247-250: the loop is left and flux returned
ReturnFlux ==
    /\ osc_pc = "loop"
    /\ ~remove_signal
    /\ osc_pc' = "returned"
    /\ UNCHANGED <<snr_threshold, remove_signal, number, flux_std>>
    /\ UNCHANGED <<rso_call, rso, rso_log, rso_pc>>
    /\ UNCHANGED <<art_opts, art_pc, art_log, art_result>>
    /\ UNCHANGED <<infoVars, starVars, cadenceVars, outlierVars, orderVars,
                   arrayVars>>

\* lines 186-197: snr = 10, number = 0, remove_signal = snr > snr_threshold,
\* for the default snr_threshold 4 and for 10
InitOsc ==
    /\ IdleInfo /\ IdleStar /\ IdleCadence /\ IdleOutliers /\ IdleOrder
    /\ IdleArrays /\ IdleReduce /\ IdleArtifacts
    /\ snr_threshold \in {4, 10}
    /\ remove_signal = (InitialSnr > snr_threshold)
    /\ number = 0
    /\ flux_std \in {Num(v) : v \in 0..MaxStd} \cup {NaN}
    /\ osc_pc = "loop"

NextOsc == FitOscillation \/ ReturnFlux

SpecOsc == InitOsc /\ [][NextOsc]_vars

-----------------------------------------------------------------------------
(* Claims on the user's masks.                                              *)

\* the rows of a series chosen by a predicate on the row number
Rows(s, keep) ==
    [s EXCEPT !.clean_time = Compress(s.clean_time, keep),
              !.flatten_flux = Compress(s.flatten_flux, keep),
              !.clean_flux_err = Compress(s.clean_flux_err, keep)]

Finite(mask_range) == ~IsNaN(mask_range[1]) /\ ~IsNaN(mask_range[2])

\* 1 for a row inside start <= time <= end
Inside(s, i, mask_range) ==
    /\ s.clean_time[i] * SlotsPerDay >= mask_range[1].v * s.per_day
    /\ s.clean_time[i] * SlotsPerDay <= mask_range[2].v * s.per_day

RangeSteps == {k \in 1..Len(trail) : trail[k].entry.t = "list"}
TransitSteps == {k \in 1..Len(trail) : trail[k].entry.t = "dict"}

\* C11: every (start, end) entry with finite bounds leaves exactly the rows
\* with start <= time <= end, in all three arrays. The code does not: the
\* index is a list holding the boolean array, which numpy 1.23.5 rejects.
C11_RangeKeepsInside ==
    \A k \in RangeSteps :
        Finite(trail[k].entry.v) =>
            trail[k].after =
                Rows(trail[k].before,
                     [i \in 1..Len(trail[k].before.clean_time) |->
                         Inside(trail[k].before, i, trail[k].entry.v)])

\* C12: an entry whose end is NaN has no upper bound and still has its lower
\* one: it leaves exactly the rows with time >= start. The code does not:
\* both comparisons are skipped, the index is [False], and the series is
\* emptied when it has one sample and rejected otherwise.
C12_OpenEndKeepsFromStart ==
    \A k \in RangeSteps :
        LET r == trail[k].entry.v
            s == trail[k].before
        IN  (IsNaN(r[2]) /\ ~IsNaN(r[1])) =>
                trail[k].after =
                    Rows(s, [i \in 1..Len(s.clean_time) |->
                                s.clean_time[i] * SlotsPerDay
                                    >= r[1].v * s.per_day])

\* C13: applying the same initial_mask to what it gave gives the same
\* series again. The code does not: [[start, nan]] empties a series of one
\* sample, and is rejected on the empty series it gave.
C13_Idempotent ==
    (clean_pc = "transit_mask" /\ object_info.initial_mask # PyNone) =>
        Masked(clean, object_info.initial_mask.v) = clean

\* s is what is left of r when some of its rows are taken out
SubSequence(s, r) ==
    /\ s.t = "arrays"
    /\ \E keep \in [1..Len(r.clean_time) -> BOOLEAN] : s = Rows(r, keep)

InTransit(s, i, tm) ==
    \E k \in (0 - MaxSlot)..MaxSlot :
        LET d == s.clean_time[i] * SlotsPerDay
                    - (tm.T0 + k * tm.P) * s.per_day
        IN  (IF d < 0 THEN -d ELSE d) * 2 * MinutesPerDay
                < tm.D * s.per_day * SlotsPerDay

\* C15: a transit entry {P, T0, D} takes out exactly the rows whose time is
\* less than D / 2 from some T0 + k * P, and leaves every other row with its
\* flux and its error.
C15_TransitWindow ==
    \A k \in TransitSteps :
        LET s == trail[k].before
        IN  trail[k].after =
                Rows(s, [i \in 1..Len(s.clean_time) |->
                            ~InTransit(s, i, trail[k].entry)])

\* an entry took out rows at two transit times and left the rows between
C15_Witness ==
    \E k \in TransitSteps :
        LET s == trail[k].before
            a == trail[k].after
        IN  /\ a.t = "arrays"
            /\ \E i, j, l \in 1..Len(s.clean_time) :
                  /\ i < j /\ j < l
                  /\ InTransit(s, i, trail[k].entry)
                  /\ ~InTransit(s, j, trail[k].entry)
                  /\ InTransit(s, l, trail[k].entry)
                  /\ \A x \in 1..Len(a.clean_time) :
                        a.clean_time[x] \notin {s.clean_time[i], s.clean_time[l]}
                  /\ \E x \in 1..Len(a.clean_time) :
                        /\ a.clean_time[x] = s.clean_time[j]
                        /\ a.flatten_flux[x] = s.flatten_flux[j]
                        /\ a.clean_flux_err[x] = s.clean_flux_err[j]

-----------------------------------------------------------------------------
(* Claims on the mask of high RMS.                                          *)

RmsSteps ==
    {k \in 1..Len(trail) :
        trail[k].entry.t = "stage" /\ trail[k].entry.v = "high_rms"}

\* rows i and j of s have no gap of more than three days between them
SameSegment(s, i, j) ==
    \A k \in 1..(Len(s.clean_time) - 1) :
        ((i <= k /\ k < j) \/ (j <= k /\ k < i)) =>
            s.clean_time[k + 1] - s.clean_time[k] <= GapDays * s.per_day

\* C16: a sample is taken out exactly when the standard deviation of its
\* bin is above the median of its segment times the threshold; so no sample
\* is taken out of a segment whose flux is one value throughout, where every
\* bin has standard deviation 0. The code does: the last sample before a gap
\* is given the mask of the first sample after it.
C16_OnlyHighBinsRemoved ==
    \A k \in RmsSteps :
        LET s == trail[k].before
            a == trail[k].after
        IN  a.t = "arrays" =>
                \A i \in 1..Len(s.clean_time) :
                    (\A j \in 1..Len(s.clean_time) :
                        SameSegment(s, i, j) =>
                            s.flatten_flux[j] = s.flatten_flux[i])
                    => \E x \in 1..Len(a.clean_time) :
                          a.clean_time[x] = s.clean_time[i]

\* C17: the mask of high RMS is computed for every series, whatever its
\* segments. The code does not: a segment of one sample, or of less than a
\* bin after its first sample, raises.
C17_RmsCompletes ==
    \A k \in RmsSteps : trail[k].after.t = "arrays"

-----------------------------------------------------------------------------
(* Claims on the reduction of oscillations.                                 *)

\* C19: whenever a fit is subtracted (flux replaced, number counted up) the
\* standard deviation of flux becomes strictly lower, and flux changes in no
\* other way.
C19_StdDecreases ==
    [][(number' # number \/ flux_std' # flux_std) =>
          /\ number' = number + 1
          /\ ~IsNaN(flux_std) /\ ~IsNaN(flux_std')
          /\ flux_std'.v < flux_std.v]_vars

\* two fits have been subtracted and a third was refused
C19_Witness ==
    number >= 2 /\ ~remove_signal /\ osc_pc = "loop" /\ flux_std.v > 0

\* C20: the loop is left after 20 passes at most. The code has no such cap:
\* it subtracts fits for as long as each is good enough.
C20_AtMostTwentyIterations == number <= 20

-----------------------------------------------------------------------------
(* Claims on the arrays between the stages.                                 *)

StageSteps(name) ==
    {k \in 1..Len(trail) :
        trail[k].entry.t = "stage" /\ trail[k].entry.v = name}

\* C18: what every stage and every mask entry that completes leaves has
\* time, flux and flux_error of one length and times that never decrease;
\* and the mask of high RMS, whenever it is computed, has one entry for each
\* sample of the series it is computed for.
C18_AlignedAndSorted ==
    /\ \A k \in 1..Len(trail) :
          LET a == trail[k].after
          IN  a.t = "arrays" =>
                /\ Len(a.clean_time) = Len(a.flatten_flux)
                /\ Len(a.clean_time) = Len(a.clean_flux_err)
                /\ \A i \in 1..(Len(a.clean_time) - 1) :
                      a.clean_time[i] <= a.clean_time[i + 1]
    /\ \A k \in StageSteps("high_rms") :
          LET s == trail[k].before
              mask == HighRmsMask(s, object_info, 0, Jumps(s))
          IN  mask.t # "raise" => Len(mask.v) = Len(s.clean_time)

\* a build in which binning, the mask of high RMS, smoothing, the reduction
\* of oscillations, the detrend and a transit entry all completed, the
\* binning and the transit entry each leaving fewer rows than they found
C18_Witness ==
    /\ clean_pc = "done"
    /\ \A name \in {"binning", "high_rms", "smooth", "oscillations", "detrend"} :
          \E k \in StageSteps(name) : trail[k].after.t = "arrays"
    /\ \E k \in StageSteps("binning") :
          /\ Len(trail[k].after.clean_time) > 1
          /\ Len(trail[k].after.clean_time) < Len(trail[k].before.clean_time)
    /\ \E k \in TransitSteps :
          /\ Len(trail[k].after.clean_time) > 1
          /\ Len(trail[k].after.clean_time) < Len(trail[k].before.clean_time)

-----------------------------------------------------------------------------
(* build_object_info: the priority of the branches (lines 550-600) *)

\* C29: build_object_info decides by first match in a fixed priority: with
\* a mission identifier, a supplied file gives the mission-file variant
\* whatever the cadence, given or omitted; without one, a coordinates target
\* with a cadence above 300 s gives the FFI-coordinates variant even when a
\* file is supplied too.
C29_FirstMatchPriority ==
    Called =>
        /\ (IsMissionTarget /\ ~IsNone(Arg_file))
           => Returned("MissionInputObjectInfo")
        /\ (IsCoordsTarget /\ ~IsNone(Arg_file) /\ CadenceGiven
            /\ Arg_cadence.v > ShortCadenceLimit)
           => Returned("MissionFfiCoordsObjectInfo")

-----------------------------------------------------------------------------
(* build, lines 79-105: the detrend period and the window *)

PastBlock(block) == Position(Blocks, b_pc) > Position(Blocks, block)

\* C27: once the period is selected, lc_build.detrend_period is
\* auto_detrend_period when that is supplied, whatever auto_detrend_enabled
\* says; otherwise, with auto_detrend_enabled, it is the period of the
\* maximum-power bin when that bin's index is above 0 and none when it is 0;
\* otherwise none.  The flux is detrended if and only if a period was
\* chosen, and the window is then period * auto_detrend_ratio.
C27_DetrendPeriodRule ==
    /\ PastBlock("select_period") =>
          b_period =
              IF ~IsNone(b_opts.auto_detrend_period)
              THEN b_opts.auto_detrend_period
              ELSE IF b_opts.auto_detrend_enabled /\ b_opts.max_power_index > 0
                   THEN PeriodAt(b_opts.max_power_index)
                   ELSE PyNone
    /\ PastBlock("detrend") =>
          /\ Acted("detrend") <=> ~IsNone(b_period)
          /\ IF Acted("detrend")
             THEN /\ ~IsNone(b_window)
                  /\ b_window.num * b_period.den * b_opts.auto_detrend_ratio.den
                       = b_period.num * b_opts.auto_detrend_ratio.num * b_window.den
             ELSE IsNone(b_window)

\* A build with no period given and auto_detrend_enabled, detrended with
\* the period of the strongest bin (index 1) and a quarter of it as window.
C27_Witness ==
    /\ BuildDone /\ IsNone(b_opts.auto_detrend_period)
    /\ b_opts.auto_detrend_enabled /\ b_opts.max_power_index = 1
    /\ b_opts.auto_detrend_ratio = Rat(1, 4)
    /\ Acted("detrend") /\ b_period = Rat(15, 2) /\ b_window = Rat(15, 8)

-----------------------------------------------------------------------------
(* __clean_initial_flux, lines 450-477: the slices of the mask of high RMS *)

\* C28: the slices clean_time[previous_jump_index:jumpIndex] the mask of
\* high RMS is computed on are the contiguous runs of the series: no slice
\* holds two samples with a gap of more than three days between them.  The
\* code does not: the jump index is the index of the last sample before the
\* gap, which the slice leaves to the next one.
C28_SlicesAreRuns ==
    \A k \in RmsSteps :
        LET s == trail[k].before
            jumps == Jumps(s)
        IN  \A n \in 1..Len(jumps) :
                LET previous_jump_index == IF n = 1 THEN 0 ELSE jumps[n - 1]
                IN  \A i \in (previous_jump_index + 1)..jumps[n] :
                        \A j \in (previous_jump_index + 1)..jumps[n] :
                            SameSegment(s, i, j)

-----------------------------------------------------------------------------
(* build, lines 83-93, __reduce_simple_oscillations (lines 186-250) and     *)
(* __reduce_visible_transits (lines 252-285) on arrays.  The transit        *)
(* search, the periodogram and the sine fit are library calls: a pass takes *)
(* their outcome (SDE and in_transit; snr; the fit or its RuntimeError)     *)
(* from small sets.  Flux values are whole numbers, the sine of fit k at    *)
(* time t is Wave(k, t); standard deviations are levels as above.           *)

MaxSearches == 2
SeriesLen == 3
MaxLevel == 2
min_sde == 13

\* the signature of __reduce_simple_oscillations after self (lines 186-188)
ReduceSimpleOscillationsParams(cpu_count) ==
    << Req("object_dir"), Req("object_id"), Req("time"), Req("flux"),
       Req("star_info"), Opt("snr_threshold", 4),
       Opt("amplitude_threshold", Rat(1, 10)), Opt("window_size_scale", 60),
       Opt("oscillation_min_period", Rat(1, 500)),
       Opt("oscillation_max_period", Rat(1, 5)),
       Opt("cpus", PyInt(cpu_count - 1)) >>

\* the arguments of the call of lines 87-92, in their order
ReduceSimpleOscillationsArgs(call) ==
    << PyStr(<<"o", "b", "j", "/">>), PyNone, call.time, call.flux, PyNone,
       call.object_info.oscillation_snr_threshold,
       call.object_info.oscillation_amplitude_threshold,
       call.object_info.oscillation_ws_scale,
       call.object_info.oscillation_min_period,
       PyInt(call.cpus) >>

\* lines 197 and 209, with >= for >
RemoveSignal_inclusive(snr, threshold) == snr >= threshold
\* lines 197 and 209: remove_signal = snr > snr_threshold
RemoveSignal(snr, threshold) == snr > threshold

\* lines 256 and 277, with >= for >
VisibleTransit_inclusive(sde) == sde >= min_sde
\* lines 256 and 277: sde > min_sde
VisibleTransit(sde) == sde > min_sde

\* the sine term of fitfunc for the fit of pass k, and fitfunc (line 223)
Wave(k, t) == ((k + t) % 3) - 1
fitfunc(k, t) == Wave(k, t) + 1

\* lines 226 and 241 without the + 1
Corrected_without_offset(flux, time, k) ==
    [i \in 1..Len(flux) |-> flux[i] - fitfunc(k, time[i])]
\* lines 224-226 and 241: flux - fitfunc(time) + 1
Corrected(flux, time, k) ==
    [i \in 1..Len(flux) |-> flux[i] - fitfunc(k, time[i]) + 1]

\* lc.to_periodogram(minimum_period=..., maximum_period=...): its span
to_periodogram(minimum_period, maximum_period) ==
    [minimum_period |-> minimum_period, maximum_period |-> maximum_period]

\* pulsations_df.sort_values(['number'], ascending=[True])
sort_values(df) ==
    IF df = <<>> THEN df
    ELSE CHOOSE sorted \in [1..Len(df) -> {df[i] : i \in 1..Len(df)}] :
            /\ \A i \in 1..Len(df) : \E j \in 1..Len(df) : sorted[j] = df[i]
            /\ \A i \in 1..(Len(df) - 1) : sorted[i].number <= sorted[i + 1].number

\* what rso_log.fit holds for a pass: how it ended, what was measured and
\* fitted, and flux, no_transits_flux and number as the pass found them
Pass(outcome, snr, fit) ==
    [outcome |-> outcome, snr |-> snr, fit |-> fit, flux |-> rso.flux,
     no_transits_flux |-> rso.no_transits_flux, number |-> rso.number,
     flux_std |-> rso.flux_std]

\* lines 254-284: one pass of `while sde > min_sde`; when it finds no
\* transit, lines 190-198 follow
SearchVisibleTransits ==
    /\ rso_pc = "transits"
    /\ VisibleTransit(rso.sde)
    /\ \E SDE \in {12, min_sde, 14} :
       \E in_transit \in [1..Len(rso.no_transits_time) -> BOOLEAN] :
          /\ IF VisibleTransit(SDE)
             THEN /\ Len(rso_log.searches) < MaxSearches
                  /\ \E i \in 1..Len(in_transit) : in_transit[i]
                  /\ \E i \in 1..Len(in_transit) : ~in_transit[i]
             ELSE \A i \in 1..Len(in_transit) : ~in_transit[i]
          /\ rso_log' =
                [rso_log EXCEPT
                    !.searches = Append(@, [time |-> rso.no_transits_time,
                                            sde |-> SDE,
                                            in_transit |-> in_transit]),
                    !.periodograms =
                        IF VisibleTransit(SDE) THEN @
                        ELSE <<to_periodogram(rso.oscillation_min_period,
                                              rso.oscillation_max_period)>>]
          /\ rso' =
                IF VisibleTransit(SDE)
                THEN [rso EXCEPT
                        !.sde = SDE,
                        !.no_transits_time =
                            Compress(@, [i \in 1..Len(in_transit) |-> ~in_transit[i]]),
                        !.no_transits_flux =
                            Compress(@, [i \in 1..Len(in_transit) |-> ~in_transit[i]])]
                ELSE [rso EXCEPT
                        !.sde = SDE,
                        !.snr = InitialSnr,
                        !.remove_signal = RemoveSignal(InitialSnr, rso.snr_threshold)]
          /\ rso_pc' = IF VisibleTransit(SDE) THEN "transits" ELSE "loop"
    /\ UNCHANGED <<rso_call, snr_threshold, remove_signal, number, flux_std, osc_pc>>
    /\ UNCHANGED <<art_opts, art_pc, art_log, art_result>>
    /\ UNCHANGED <<infoVars, starVars, cadenceVars, outlierVars, orderVars,
                   arrayVars>>

\* lines 199-246: one pass of `while remove_signal`
RemoveOscillation ==
    /\ rso_pc = "loop"
    /\ rso.remove_signal
    /\ \E snr \in {3, 11} :
          IF ~RemoveSignal(snr, rso.snr_threshold)
          THEN /\ rso' = [rso EXCEPT !.snr = snr, !.remove_signal = FALSE]
               /\ rso_log' = [rso_log EXCEPT !.fit = Pass("low_snr", snr, PyNone)]
               /\ rso_pc' = "loop"
          ELSE \E converged \in BOOLEAN :
               \E A \in {0, 1, 10 * MaxLevel + 11},
                  A_err \in {Inf, Num(1), Num(2 * MaxLevel + 3)},
                  p_err \in {Inf, Num(1), Num(2)},
                  flux_corr_std \in {Num(v) : v \in 0..MaxLevel} \cup {NaN} :
                  LET fit == [A |-> A, A_err |-> A_err, p_err |-> p_err,
                              flux_corr_std |-> flux_corr_std]
                      flux_corr == Corrected(rso.flux, rso.time, rso.number)
                      good == is_simple_oscillation_good_enough(
                                  snr, rso.snr_threshold, A, A_err, p_err,
                                  rso.flux_std, flux_corr_std)
                  IN  IF ~converged
                      \* scipy.optimize.curve_fit raises RuntimeError
                      THEN /\ A = 0 /\ A_err = Inf /\ p_err = Inf
                           /\ flux_corr_std = NaN
                           /\ rso' = [rso EXCEPT !.snr = snr]
                           /\ rso_log' = [rso_log EXCEPT
                                             !.fit = Pass("RuntimeError", snr, PyNone)]
                           /\ rso_pc' = "raised"
                      ELSE IF ~good
                      THEN /\ rso' = [rso EXCEPT !.snr = snr,
                                                 !.remove_signal = FALSE]
                           /\ rso_log' = [rso_log EXCEPT
                                             !.fit = Pass("rejected", snr, fit)]
                           /\ rso_pc' = "loop"
                      ELSE /\ rso' =
                                [rso EXCEPT
                                    !.snr = snr,
                                    !.pulsations_df =
                                        Append(@, [snr |-> snr, amplitude |-> A,
                                                   number |-> rso.number]),
                                    !.flux = flux_corr,
                                    !.flux_std = flux_corr_std,
                                    !.no_transits_flux =
                                        Corrected(@, rso.no_transits_time,
                                                  rso.number),
                                    !.number = @ + 1]
                           /\ rso_log' =
                                [rso_log EXCEPT
                                    !.fit = Pass("accepted", snr, fit),
                                    !.periodograms =
                                        Append(@, to_periodogram(
                                                      rso.oscillation_min_period,
                                                      PyInt(2)))]
                           /\ rso_pc' = "loop"
    /\ UNCHANGED <<rso_call, snr_threshold, remove_signal, number, flux_std, osc_pc>>
    /\ UNCHANGED <<art_opts, art_pc, art_log, art_result>>
    /\ UNCHANGED <<infoVars, starVars, cadenceVars, outlierVars, orderVars,
                   arrayVars>>

\* lines 247-250: signals.csv when there is a row, and flux returned
ReturnCorrectedFlux ==
    /\ rso_pc = "loop"
    /\ ~rso.remove_signal
    /\ rso_log' =
          [rso_log EXCEPT
              !.signals_csv =
                  IF Len(rso.pulsations_df) > 0
                  THEN Append(@, sort_values(rso.pulsations_df)) ELSE @]
    /\ rso_pc' = "returned"
    /\ UNCHANGED <<rso_call, rso, snr_threshold, remove_signal, number, flux_std, osc_pc>>
    /\ UNCHANGED <<art_opts, art_pc, art_log, art_result>>
    /\ UNCHANGED <<infoVars, starVars, cadenceVars, outlierVars, orderVars,
                   arrayVars>>

\* build at line 87 with reduce_simple_oscillations set, and the frame of
\* __reduce_simple_oscillations at line 189 with sde = min_sde + 1 of line
\* 254: object_info with the default periods and three thresholds, build's
\* cpus, and the machine's multiprocessing.cpu_count()
InitReduce ==
    /\ IdleInfo /\ IdleStar /\ IdleCadence /\ IdleOutliers /\ IdleOrder
    /\ IdleArrays
    /\ snr_threshold = PyNone /\ remove_signal = FALSE /\ number = 0
    /\ flux_std = PyNone /\ osc_pc = "idle"
    /\ IdleArtifacts
    /\ \E threshold \in {4, InitialSnr, 12}, cpus \in {1, 2},
          std \in {Num(MaxLevel), NaN} :
          /\ rso_call =
                [object_info |->
                    [oscillation_snr_threshold |-> threshold,
                     oscillation_amplitude_threshold |-> Rat(1, 10),
                     oscillation_ws_scale |-> 60,
                     oscillation_min_period |-> Rat(1, 500),
                     oscillation_max_period |-> Rat(1, 5)],
                 cpus |-> cpus,
                 time |-> [i \in 1..SeriesLen |-> i - 1],
                 flux |-> [i \in 1..SeriesLen |-> 1 + (i % 2)],
                 flux_std |-> std]
          /\ LET a == Bind(ReduceSimpleOscillationsParams(4),
                           ReduceSimpleOscillationsArgs(rso_call))
             IN  rso = [time |-> a["time"], flux |-> a["flux"],
                        snr_threshold |-> a["snr_threshold"],
                        oscillation_min_period |-> a["oscillation_min_period"],
                        oscillation_max_period |-> a["oscillation_max_period"],
                        cpus |-> a["cpus"],
                        no_transits_time |-> a["time"],
                        no_transits_flux |-> a["flux"],
                        sde |-> min_sde + 1,
                        snr |-> PyNone, number |-> 0, pulsations_df |-> <<>>,
                        remove_signal |-> FALSE, flux_std |-> std]
    /\ rso_log = [searches |-> <<>>, periodograms |-> <<>>, fit |-> PyNone,
                  signals_csv |-> <<>>]
    /\ rso_pc = "transits"

NextReduce == SearchVisibleTransits \/ RemoveOscillation \/ ReturnCorrectedFlux

SpecReduce == InitReduce /\ [][NextReduce]_vars

-----------------------------------------------------------------------------
(* Claims on __reduce_simple_oscillations as build calls it.                *)

\* the last pass of `while remove_signal` ended in one of the given ways
LastPass(outcomes) ==
    rso_log.fit # PyNone /\ rso_log.fit.outcome \in outcomes

\* C21: a sine fit that does not converge is caught inside the loop and
\* taken as no more oscillations: the loop ends and the flux corrected by
\* the fits accepted before is returned.  The code does not: the
\* RuntimeError of curve_fit (line 219) leaves __reduce_simple_oscillations
\* and build.
C21_FitFailureEndsLoop ==
    LastPass({"RuntimeError"}) =>
        rso_pc \in {"loop", "returned"} /\ ~rso.remove_signal

\* C23: every periodogram of the oscillation stage, the first and each one
\* computed again after a fit, spans oscillation_min_period to
\* oscillation_max_period of object_info, whatever cpus build was given.
\* The code does not: the first spans up to cpus, the others up to 2 days.
C23_PeriodogramSpan ==
    \A k \in 1..Len(rso_log.periodograms) :
        rso_log.periodograms[k] =
            to_periodogram(rso_call.object_info.oscillation_min_period,
                           rso_call.object_info.oscillation_max_period)

\* C24: the fit of a pass is accepted (its record appended, flux replaced,
\* number counted up) exactly when the peak SNR is above snr_threshold, the
\* amplitude error is infinite or less than 0.2 of the amplitude, the phase
\* error is infinite or less than 0.2, the amplitude is more than
\* amplitude_threshold (0.1) times the standard deviation of the flux, and
\* the corrected flux has a lower standard deviation than the flux had.
C24_AcceptedIffFiveConditions ==
    LastPass({"accepted", "rejected", "low_snr"}) =>
        LET pass == rso_log.fit
            accepted ==
                /\ rso.number = pass.number + 1
                /\ Len(rso.pulsations_df) = pass.number + 1
                /\ pass.outcome = "accepted"
            five ==
                IF pass.snr <= rso.snr_threshold THEN FALSE
                ELSE /\ \/ pass.fit.A_err = Inf
                        \/ pass.fit.A > 0 /\ 10 * pass.fit.A_err.v < 2 * pass.fit.A
                     /\ pass.fit.p_err = Inf \/ pass.fit.p_err.v < 2
                     /\ ~IsNaN(pass.flux_std)
                     /\ \/ pass.flux_std.v = 0 /\ pass.fit.A > 0
                        \/ pass.flux_std.v > 0 /\ pass.fit.A > pass.flux_std.v
                     /\ ~IsNaN(pass.fit.flux_corr_std)
                     /\ pass.fit.flux_corr_std.v < pass.flux_std.v
        IN  /\ accepted <=> five
            /\ ~accepted => rso.number = pass.number /\ rso.flux = pass.flux

\* a pass whose fit fails on the amplitude alone, after an accepted one
C24_Witness ==
    /\ LastPass({"rejected"}) /\ rso.number = 1
    /\ rso_log.fit.fit.A = 1 /\ rso_log.fit.fit.A_err = Inf
    /\ rso_log.fit.fit.p_err = Num(1) /\ rso_log.fit.flux_std = Num(1)
    /\ rso_log.fit.fit.flux_corr_std = Num(0)

\* the sample of the full series that has time t
IndexOfTime(t) == CHOOSE i \in 1..Len(rso.time) : rso.time[i] = t

\* C25: an accepted fit takes the same sinusoid off the full flux and off
\* the transit-masked flux and appends one record whose number is the count
\* of fits accepted before (0, 1, 2, ...), computes the periodogram again
\* and goes on; a rejected fit or an SNR not above the threshold ends the
\* loop with both fluxes and the records as the pass found them; signals.csv
\* is written once, after the loop, and only if there is a record.
C25_AcceptedAndRejectedPasses ==
    /\ Len(rso.pulsations_df) = rso.number
    /\ \A k \in 1..Len(rso.pulsations_df) : rso.pulsations_df[k].number = k - 1
    /\ Len(rso.no_transits_flux) = Len(rso.no_transits_time)
    /\ \A j \in 1..Len(rso.no_transits_time) :
          rso.no_transits_flux[j] = rso.flux[IndexOfTime(rso.no_transits_time[j])]
    /\ LastPass({"accepted"}) =>
          /\ \A i \in 1..Len(rso.time) :
                rso.flux[i] = rso_log.fit.flux[i]
                                - fitfunc(rso_log.fit.number, rso.time[i]) + 1
          /\ rso.number = rso_log.fit.number + 1
          /\ Len(rso_log.periodograms) = rso.number + 1
          /\ rso.remove_signal
    /\ LastPass({"rejected", "low_snr"}) =>
          /\ rso.flux = rso_log.fit.flux
          /\ rso.no_transits_flux = rso_log.fit.no_transits_flux
          /\ rso.number = rso_log.fit.number
          /\ ~rso.remove_signal
    /\ IF rso_pc = "returned" /\ rso.number > 0
       THEN rso_log.signals_csv = <<rso.pulsations_df>>
       ELSE rso_log.signals_csv = <<>>

\* two fits accepted, a third rejected, and signals.csv written with the
\* two records
C25_Witness ==
    /\ rso_pc = "returned" /\ rso.number = 2 /\ LastPass({"rejected"})
    /\ Len(rso_log.signals_csv) = 1 /\ Len(rso_log.signals_csv[1]) = 2
    /\ rso.flux # rso_call.flux
    /\ Len(rso.no_transits_time) < Len(rso.time)

\* C26: the search for obvious transits is repeated, and its transit
\* masked, exactly while the last SDE is above 13, and stops at the first
\* SDE of 13 or less, which masks nothing; each search is on the samples the
\* masks before it left; the masks change the working copy only, and the
\* flux of __reduce_simple_oscillations keeps one value for each sample of
\* the time it was given.
C26_VisibleTransits ==
    LET searches == rso_log.searches
        remaining(k) ==
            Compress(searches[k].time,
                     [i \in 1..Len(searches[k].time) |->
                         ~(searches[k].sde > 13 /\ searches[k].in_transit[i])])
    IN  /\ \A k \in 1..(Len(searches) - 1) : searches[k].sde > 13
        /\ rso_pc = "transits" => \A k \in 1..Len(searches) : searches[k].sde > 13
        /\ rso_pc # "transits" =>
              /\ Len(searches) >= 1
              /\ searches[Len(searches)].sde <= 13
        /\ \A k \in 1..Len(searches) :
              /\ searches[k].time = IF k = 1 THEN rso_call.time ELSE remaining(k - 1)
              /\ k = Len(searches) => rso.no_transits_time = remaining(k)
        /\ rso.time = rso_call.time
        /\ Len(rso.flux) = Len(rso_call.time)
        /\ rso_pc = "transits" => rso.flux = rso_call.flux

\* two transits masked, the third search at exactly 13, and the flux
\* returned after an accepted fit
C26_Witness ==
    /\ rso_pc = "returned" /\ Len(rso_log.searches) = 3
    /\ rso_log.searches[3].sde = 13
    /\ Len(rso.no_transits_time) = Len(rso_call.time) - 2
    /\ rso.number > 0 /\ Len(rso.flux) = Len(rso_call.time)

\* C30: with snr_threshold at or above the seed SNR of 10 the loop is not
\* entered: no fit is attempted, no record is logged, no periodogram is
\* computed again, signals.csv is not written and the flux is returned as
\* it was given.
C30_NoPassAtOrAboveSeed ==
    (rso_pc \in {"loop", "returned"} /\ rso.snr_threshold >= 10) =>
        /\ rso_log.fit = PyNone
        /\ rso.pulsations_df = <<>> /\ rso.number = 0
        /\ Len(rso_log.periodograms) = 1
        /\ rso_log.signals_csv = <<>>
        /\ rso.flux = rso_call.flux

C30_Witness ==
    /\ rso_pc = "returned" /\ rso.snr_threshold = 10
    /\ rso_log.fit = PyNone /\ rso.flux = rso_call.flux

-----------------------------------------------------------------------------
(* build and the files it writes.  Each write is a call of open, to_csv,    *)
(* os.mkdir or savefig, which raises OSError when the file cannot be        *)
(* written; lcbuilder_class.py has no try statement.                        *)

\* the writes of build in the order of the code, each with the condition it
\* is under: line 47, __complete_star_info (line 420), line 67,
\* __plot_rms_mask (lines 505, 523), __plot_periodogram (line 144),
\* __plot_pulsation_fit (lines 303-304), __plot_pulsation_periodogram
\* (lines 311, 314), line 249, line 101 and line 134
Artifacts ==
    << [file |-> "apertures.yaml", when |-> "tpf_apertures"],
       [file |-> "params_star.csv", when |-> "always"],
       [file |-> "lc.csv", when |-> "always"],
       [file |-> "rms_mask/High_RMS_Mask.png", when |-> "high_rms_enabled"],
       [file |-> "Periodogram_Initial.png", when |-> "always"],
       [file |-> "sa/0/folded_curve.png", when |-> "pulsation"],
       [file |-> "sa/0/Periodogram.png", when |-> "pulsation"],
       [file |-> "sa/signals.csv", when |-> "pulsation"],
       [file |-> "Phase_detrend_period.png", when |-> "detrend_period"],
       [file |-> "Periodogram_Final.png", when |-> "always"] >>

\* a write as the code makes it: what it raises leaves build
Write(ok) == IF ok THEN "returned" ELSE "OSError"

\* the code up to and with the next write: skipped when its condition does
\* not hold
WriteArtifact ==
    /\ art_result = "running"
    /\ art_pc <= Len(Artifacts)
    /\ LET artifact == Artifacts[art_pc]
       IN  IF artifact.when # "always" /\ ~art_opts[artifact.when]
           THEN /\ art_pc' = art_pc + 1
                /\ UNCHANGED <<art_log, art_result>>
           ELSE \E ok \in BOOLEAN :
                   /\ art_log' = Append(art_log, [file |-> artifact.file,
                                                  written |-> ok])
                   /\ IF Write(ok) = "returned"
                      THEN art_pc' = art_pc + 1 /\ art_result' = art_result
                      ELSE art_pc' = art_pc /\ art_result' = "raised"
    /\ UNCHANGED art_opts
    /\ UNCHANGED <<snr_threshold, remove_signal, number, flux_std, osc_pc,
                   rso_call, rso, rso_log, rso_pc>>
    /\ UNCHANGED <<infoVars, starVars, cadenceVars, outlierVars, orderVars,
                   arrayVars>>

\* line 136: return lc_build
ReturnLcBuild ==
    /\ art_result = "running"
    /\ art_pc = Len(Artifacts) + 1
    /\ art_result' = "returned"
    /\ UNCHANGED <<art_opts, art_pc, art_log>>
    /\ UNCHANGED <<snr_threshold, remove_signal, number, flux_std, osc_pc,
                   rso_call, rso, rso_log, rso_pc>>
    /\ UNCHANGED <<infoVars, starVars, cadenceVars, outlierVars, orderVars,
                   arrayVars>>

InitArtifacts ==
    /\ IdleInfo /\ IdleStar /\ IdleCadence /\ IdleOutliers /\ IdleOrder
    /\ IdleArrays /\ IdleReduce
    /\ snr_threshold = PyNone /\ remove_signal = FALSE /\ number = 0
    /\ flux_std = PyNone /\ osc_pc = "idle"
    /\ art_opts \in [{"tpf_apertures", "high_rms_enabled", "pulsation",
                      "detrend_period"} -> BOOLEAN]
    /\ art_pc = 1
    /\ art_log = <<>>
    /\ art_result = "running"

NextArtifacts == WriteArtifact \/ ReturnLcBuild

SpecArtifacts == InitArtifacts /\ [][NextArtifacts]_vars

\* C22: a write of a diagnostic file that fails is isolated: build goes on
\* and returns lc_build as it would have with the file written.  The code
\* does not: the exception of the write leaves build.
C22_WriteFailureIsolated ==
    (\E k \in 1..Len(art_log) : ~art_log[k].written) => art_result # "raised"

=============================================================================
